---- MODULE Spec2Model ----
(***************************************************************************)
(* The asynchronous FIFO bridge of nomad-mpt (FifoManager): four MPMC      *)
(* queues, the fiber worker pool, the Find and Traverse processors, the    *)
(* large-value side channel and the start/stop protocol.                   *)
(*                                                                         *)
(* Source: bindings/rust/nomad-mpt-sys/src/{bridge_fifo.hpp, ck_wrapper.h, *)
(* ck_wrapper.c}.  The trie engine (mpt::Db) and the fiber pool are        *)
(* collaborators whose code is outside the modelled sources.               *)
(***************************************************************************)
EXTENDS Integers, Sequences, FiniteSets, TLC

\* ------------------------------------------------------------------ bounds
\* Largest num_workers argument given to start().
MaxWorkers == 2
\* Requests handed to submit()/submit_batch() over a run.
MaxReq == 2
\* Allocation failures the environment may inject over a run.
MaxFaults == 2
\* start()/stop() calls made over a run.
MaxCalls == 3
\* Longest path_ (in nibbles) handed to the path packing on its own.
MaxPathLen == 66
\* Largest max_count given to poll_completion_batch()/poll_traverse_batch().
MaxPoll == 2
\* Calls made on the Go binding's Fifo, and on its DB, over a run.
MaxGoCalls == 3
\* Deepest nesting of down() calls made on a traverse machine on its own.
MaxDepth == 3
\* Link entries allocated for one queue over a run, the stub aside.
MaxEntries == 4

\* ------------------------------------------------------- program constants
REQ_FIND_VALUE == 1
REQ_FIND_NODE == 2
REQ_TRAVERSE == 3
REQ_SHUTDOWN == 255

STATUS_OK == 0
STATUS_NOT_FOUND == 1
STATUS_ERROR == 2
STATUS_TRAVERSE_MORE == 3
STATUS_TRAVERSE_END == 4

\* sizeof(comp.value): the inline capacity of a Completion.
InlineCap == 256
\* sizeof(comp.merkle_hash).
HashLen == 32
\* The default handed to Db::traverse when traverse_limit is 0.
DefaultTraverseLimit == 4096
\* mpt::INVALID_BRANCH: the branch given to down()/up() for the start node.
INVALID_BRANCH == 255

\* ------------------------------------------------------------ fixed widths
\* static_cast<uint32_t>(n), kept as two 16-bit limbs <<high, low>>.
U32(n) == << (n \div 65536) % 65536, n % 65536 >>

\* 0xFFFFFFFF, the value_len that says "the value is on the LargeValue queue".
SENTINEL_LEN == << 65535, 65535 >>

\* len > UINT32_MAX for a size_t len.
ExceedsU32(len) == (len \div 65536) >= 65536

Min(a, b) == IF a < b THEN a ELSE b

Zeros(n) == [i \in 1..n |-> 0]

Workers == 1..MaxWorkers

\* The threads that call start(), or stop(), at the same time.
Callers == {1, 2}

\* No PriorityPool has been made.
NoPool == [state |-> "none", fibers |-> 0]

\* -------------------------------------------------------- the trie fixture
\* The database the bridge is created over.  Version 2 holds five nodes;
\* no other version holds data.  Keys are nibble paths from the root.
\*   root                      no value
\*    +-1- A  path <<2>>       value "hi" (2 bytes),  32 bytes of node data
\*    |     +-3- C path <<4>>  value of 256 bytes,    32 bytes of node data
\*    |     +-5- D path <<6>>  value of 257 bytes,    20 bytes of node data
\*    +-7- B  path <<8>>       value of 0 bytes,      32 bytes of node data
DataVersion == 2

Trie ==
    [ root |-> [has_value |-> FALSE, value |-> << >>, data |-> << >>,
                path |-> << >>, children |-> << <<1, "A">>, <<7, "B">> >>],
      A    |-> [has_value |-> TRUE, value |-> <<104, 105>>,
                data |-> [i \in 1..32 |-> 160 + i],
                path |-> <<2>>, children |-> << <<3, "C">>, <<5, "D">> >>],
      B    |-> [has_value |-> TRUE, value |-> << >>,
                data |-> [i \in 1..32 |-> 200 + i],
                path |-> <<8>>, children |-> << >>],
      C    |-> [has_value |-> TRUE, value |-> [i \in 1..InlineCap |-> i % 251],
                data |-> [i \in 1..32 |-> 100 + i],
                path |-> <<4>>, children |-> << >>],
      D    |-> [has_value |-> TRUE,
                value |-> [i \in 1..(InlineCap + 1) |-> (7 * i) % 256],
                data |-> [i \in 1..20 |-> 60 + i],
                path |-> <<6>>, children |-> << >>] ]

\* mpt::NibblesView{byte_string_view{req.key, req.key_len}}
RECURSIVE NibblesOf(_)
NibblesOf(bytes) ==
    IF bytes = << >> THEN << >>
    ELSE << Head(bytes) \div 16, Head(bytes) % 16 >> \o NibblesOf(Tail(bytes))

IsPrefix(p, s) == Len(p) <= Len(s) /\ SubSeq(s, 1, Len(p)) = p

\* The node the nibble path leads to from node n, or "none".
RECURSIVE Resolve(_, _)
Resolve(n, nibs) ==
    IF nibs = << >> THEN n
    ELSE LET next == { i \in 1..Len(Trie[n].children) :
                        /\ Trie[n].children[i][1] = Head(nibs)
                        /\ IsPrefix(Trie[Trie[n].children[i][2]].path, Tail(nibs)) }
         IN IF next = {} THEN "none"
            ELSE LET c == Trie[n].children[CHOOSE i \in next : TRUE][2]
                 IN Resolve(c, SubSeq(Tail(nibs), Len(Trie[c].path) + 1,
                                      Len(Tail(nibs))))

\* db_.find(key_view, version): the node of the cursor, "none" when the
\* cursor holds no node.
DbFind(key, version) ==
    IF version = DataVersion THEN Resolve("root", NibblesOf(key)) ELSE "none"

\* What a trie call may do besides answering: return an error, or throw.
Faults == {"none", "error", "throw"}

\* ---------------------------------------------------- FifoTraverseMachine
\* down(): the accumulated path_ after descending into node by branch.
Down(branch, node, path) ==
    IF branch = INVALID_BRANCH THEN path
    ELSE path \o << branch >> \o node.path

\* A slip: the branch nibble is not counted.
UpKeepsBranch(branch, node, path) ==
    SubSeq(path, 1, IF branch = INVALID_BRANCH THEN 0
                    ELSE Len(path) - Len(node.path))

\* up(): the accumulated path_ after leaving node.
Up(branch, node, path) ==
    SubSeq(path, 1, IF branch = INVALID_BRANCH THEN 0
                    ELSE Len(path) - Len(node.path) - 1)

\* The depth-first walk of Db::traverse from node n: the nodes it calls
\* down() on, each with the path_ the machine holds at that call.
RECURSIVE WalkNode(_, _, _), WalkChildren(_, _)
WalkNode(n, branch, path) ==
    LET p1  == Down(branch, Trie[n], path)
        sub == WalkChildren(Trie[n].children, p1)
    IN [visits |-> << [node |-> n, path |-> p1] >> \o sub.visits,
        path   |-> Up(branch, Trie[n], sub.path)]
WalkChildren(ch, path) ==
    IF ch = << >> THEN [visits |-> << >>, path |-> path]
    ELSE LET r    == WalkNode(Head(ch)[2], Head(ch)[1], path)
             rest == WalkChildren(Tail(ch), r.path)
         IN [visits |-> r.visits \o rest.visits, path |-> rest.path]

\* db_.traverse(cursor, machine, version, limit): the down() calls made,
\* at most limit of them.
DbTraverse(start, prefix, limit) ==
    LET all == WalkNode(start, INVALID_BRANCH, prefix).visits
    IN SubSeq(all, 1, Min(limit, Len(all)))

\* A slip: the request's limit is not passed on, the default always is.
EffectiveLimitIgnored(traverse_limit) == DefaultTraverseLimit

\* req.traverse_limit > 0 ? req.traverse_limit : 4096
EffectiveLimit(traverse_limit) ==
    IF traverse_limit > 0 THEN traverse_limit ELSE DefaultTraverseLimit

\* The byte send_node stores at merkle_hash[j] (j from 0) for a path.
PackedByte(path, n, j) ==
    LET hi == IF 2 * j + 1 <= n THEN (path[2 * j + 1] * 16) % 256 ELSE 0
        lo == IF 2 * j + 2 <= n THEN path[2 * j + 2] % 16 ELSE 0
    IN hi + lo

\* A slip: the bound is off by one byte.
PathFitsLoose(bytes) == bytes <= HashLen + 1

\* send_node(): if (bytes <= 32)
PathFits(bytes) == bytes <= HashLen

\* send_node(): the path packed into merkle_hash.
PackPath(path) ==
    LET nibbles == Len(path)
        bytes   == (nibbles + 1) \div 2
    IN IF PathFits(bytes)
       THEN [j \in 1..HashLen |-> PackedByte(path, nibbles, j - 1)]
       ELSE [j \in 1..HashLen |->
                IF j = HashLen THEN 255
                ELSE PackedByte(path, 2 * HashLen, j - 1)]

\* A slip: "<" for "<=", a value of exactly 256 bytes is sent out of band.
FitsInlineStrict(len) == len < InlineCap

\* A slip: the test allows one byte more than comp.value holds.
FitsInlineLoose(len) == len <= InlineCap + 1

\* value_len <= sizeof(comp.value): the value is copied into the Completion.
FitsInline(len) == len <= InlineCap

\* Completion comp{}
ZeroCompletion ==
    [lo |-> 0, hi |-> 0, status |-> 0, value_len |-> U32(0), value |-> << >>,
     merkle_hash |-> Zeros(HashLen)]

\* send_node(): the TraverseMore completion for node n reached by path.
\* value holds the bytes memcpy wrote; the rest of the 256-byte array keeps
\* the zeros of Completion comp{}.
SendNodeComp(lo, hi, n, path) ==
    LET value == Trie[n].value
        inl   == FitsInline(Len(value))
    IN [lo |-> lo, hi |-> hi, status |-> STATUS_TRAVERSE_MORE,
        value_len |-> IF inl THEN U32(Len(value)) ELSE SENTINEL_LEN,
        value |-> IF inl THEN value ELSE << >>,
        merkle_hash |-> PackPath(path)]

\* A slip: comp.status is never assigned and keeps the zero of comp{}.
TraverseEndCompNoStatus(req) ==
    [ZeroCompletion EXCEPT !.lo = req.lo, !.hi = req.hi]

\* process_traverse(): the terminal completion.
TraverseEndComp(req) ==
    [ZeroCompletion EXCEPT !.lo = req.lo, !.hi = req.hi,
                           !.status = STATUS_TRAVERSE_END, !.value_len = U32(0)]

\* ------------------------------------------------------------ process_find
\* A slip: cursor.node->has_value() is not tested.
FindStatusValueless(fault, n) ==
    IF fault # "none" THEN STATUS_ERROR
    ELSE IF n = "none" THEN STATUS_NOT_FOUND
    ELSE STATUS_OK

\* process_find(): comp.status, for a trie call that ends in fault and, when
\* it answers, leaves the cursor on node n ("none": no node).
FindStatus(fault, n) ==
    IF fault # "none" THEN STATUS_ERROR
    ELSE IF n = "none" \/ ~Trie[n].has_value THEN STATUS_NOT_FOUND
    ELSE STATUS_OK

\* A slip: data_len is not tested before the 32-byte copy.
CopiesHashAnyLength(type, data_len) == type = REQ_FIND_NODE

\* process_find(): whether the node data is copied into comp.merkle_hash.
CopiesHash(type, data_len) == type = REQ_FIND_NODE /\ data_len = HashLen

\* The Completion process_find builds for req when the trie call ends in
\* fault ("none": it answers).
FindComp(req, fault) ==
    LET base   == [ZeroCompletion EXCEPT !.lo = req.lo, !.hi = req.hi]
        n      == DbFind(req.key, req.version)
        status == FindStatus(fault, n)
    IN IF status # STATUS_OK THEN [base EXCEPT !.status = status]
       ELSE LET value == Trie[n].value
                inl   == FitsInline(Len(value))
                data  == Trie[n].data
            IN [base EXCEPT
                  !.status = STATUS_OK,
                  !.value_len = IF inl THEN U32(Len(value)) ELSE SENTINEL_LEN,
                  !.value = IF inl THEN value ELSE << >>,
                  !.merkle_hash = IF CopiesHash(req.type, Len(data))
                                  THEN data ELSE @]

\* A slip: the value over the inline capacity is never sent out of band.
FindPostsLargeNever(req, fault) == FALSE

\* Whether process_find calls post_large_value for req.
FindPostsLarge(req, fault) ==
    LET n == DbFind(req.key, req.version)
    IN /\ fault = "none"
       /\ n # "none"
       /\ Trie[n].has_value
       /\ ~FitsInline(Len(Trie[n].value))

\* ------------------------------------------------------------------ posts
\* A slip: the node is built and never enqueued.
PostCompletionLost(q, comp, ok) == q

\* A slip: the node is linked in at the head of the queue.
PostTraverseFront(q, comp, ok) == IF ok THEN << comp >> \o q ELSE q

\* A slip: sizeof(comp.value) bytes are copied, whatever len is.
PostLargeValueCapped(q, lo, hi, data, ok) ==
    IF ExceedsU32(Len(data)) \/ ~ok THEN q
    ELSE Append(q, [lo |-> lo, hi |-> hi, len |-> U32(Len(data)),
                    data |-> SubSeq(data, 1, Min(Len(data), InlineCap))])

\* A slip: on a failed allocation the queue head is reset.
PostCompletionClears(q, comp, ok) == IF ok THEN Append(q, comp) ELSE << >>

\* A slip: the two words of the correlation id are stored crosswise.
PostLargeValueSwapped(q, lo, hi, data, ok) ==
    IF ExceedsU32(Len(data)) \/ ~ok THEN q
    ELSE Append(q, [lo |-> hi, hi |-> lo, len |-> U32(Len(data)), data |-> data])

\* post_completion / post_traverse: the queue after the call; ok says that
\* both allocations (node, entry) succeeded.
PostCompletion(q, comp, ok) == IF ok THEN Append(q, comp) ELSE q

PostTraverse(q, comp, ok) == IF ok THEN Append(q, comp) ELSE q

\* post_large_value: the LargeValue queue after the call.
PostLargeValue(q, lo, hi, data, ok) ==
    IF ExceedsU32(Len(data)) \/ ~ok THEN q
    ELSE Append(q, [lo |-> lo, hi |-> hi, len |-> U32(Len(data)), data |-> data])

\* ------------------------------------------------- a queue and its entries
\* ck_fifo_mpmc_init(fifo, stub): head and tail are the stub.
CkInit(stub) == << stub >>

\* ck_fifo_mpmc_enqueue(fifo, entry, value): the entry is linked in behind
\* the tail.
CkEnqueue(chain, entry) == Append(chain, entry)

\* ck_fifo_mpmc_trydequeue(fifo, &value, &garbage) on a queue that holds a
\* payload: the payload is read from the entry behind the head, which
\* becomes the head.
CkDequeue(chain) == Tail(chain)

\* A slip: the entry handed back is the one the head has moved to.
CkGarbageNewHead(chain) == chain[2]

\* ck_fifo_mpmc_trydequeue: the entry it hands back as garbage, the old
\* head.
CkGarbage(chain) == chain[1]

\* ck_fifo_mpmc_wrapper_create(): the wrapper with its stub entry (entry 0).
FifoCreated ==
    [alloc |-> {0}, freed |-> {}, chain |-> CkInit(0), vals |-> << >>,
     garbage |-> {}, next |-> 1, out |-> << >>]

\* ------------------------------------------------------------- the state
VARIABLES
    running,      \* running_
    num_workers,  \* num_workers_
    pool,         \* pool_ holds a PriorityPool
    ctl,          \* where the thread that calls start()/stop() is
    stop_i,       \* the loop index i of stop()
    wpc,          \* per worker fiber: where it is in worker_fiber()
    wreq,         \* per worker fiber: the request it dequeued (node->req)
    wcomp,        \* per worker fiber: the Completion process_find has built
    wtodo,        \* per worker fiber: the down() calls the walk still makes
    cur,          \* the fiber the pool's thread is running, 0 when none
    requestQ,     \* request_fifo_
    completionQ,  \* completion_fifo_
    traverseQ,    \* traverse_fifo_
    largeQ,       \* large_value_fifo_
    polledC,      \* what poll_completion has returned, in order
    polledT,      \* what poll_traverse has returned, in order
    polledL,      \* what poll_large_value has returned, in order
    faults,       \* allocation failures the environment may still inject
    dropped,      \* the records an allocation failure made the bridge drop
    submitted,    \* the requests submit()/submit_batch() enqueued, in order
    nextId,       \* the next fresh correlation id
    hist,         \* the start()/stop() calls made, in order
    sent,         \* the Shutdown requests the last stop() has enqueued
    lost,         \* the Shutdown requests it could not allocate
    trieFaults,   \* <<lo, fault>>: the requests whose trie call failed
    done,         \* the requests a worker has finished (and freed)
    taken,        \* user_data_lo of the requests the workers dequeued, in order
    freed,        \* per user_data_lo: the free_request calls made for it
    dtor,         \* where ~FifoManager() is: "no", "stopping", "done"
    leaked,       \* what is still allocated once ~FifoManager() has returned
    pin,          \* a path_ handed to the path packing of send_node
    pout,         \* the merkle_hash bytes the packing has written, << >>
                  \* before it has run
    pbatch,       \* the last batch poll: its queue, max_count, the count it
                  \* returned and the nodes it wrote to out
    gdb,          \* the Go binding's DB: its handle, what the last root a
                  \* write returned holds, the calls made and their results
    gfifo,        \* the Go binding's Fifo: its handle, the calls made and
                  \* their results
    spc,          \* per thread that calls start(): where it is in start()
    sarg,         \* per such thread: its num_workers
    si,           \* per such thread: the index i of its loop
    sold,         \* per such thread: the pool_ its assignment replaces
    pools,        \* per such thread: the PriorityPool it has made
    pool_at,      \* the thread whose PriorityPool pool_ holds, 0 for nullptr
    tpc,          \* per thread that calls stop(): where it is in stop()
    ti,           \* per such thread: the index i of its loop
    tm,           \* a FifoTraverseMachine on its own: its path_, the down()
                  \* calls that are open, the last up() call
    abatch,       \* the last alloc_request_batch(): whether out[i] is
                  \* non-null, the count it returned, whether the batch has
                  \* been handed to submit_batch
    fq            \* one queue with its link entries: the entries allocated,
                  \* those freed, the chain from the head entry, the payloads
                  \* the chain holds, a consumer's garbage not yet freed

vars == << running, num_workers, pool, ctl, stop_i, wpc, wreq, wcomp, wtodo,
           cur, requestQ, completionQ, traverseQ, largeQ, polledC, polledT,
           polledL, faults, dropped, submitted, nextId, hist, sent, lost,
           trieFaults,
           done, taken, freed, dtor, leaked, pin, pout, pbatch,
           gdb, gfifo, spc, sarg, si, sold, pools, pool_at, tpc, ti, tm, fq, abatch >>

lifeVars == << running, num_workers, pool, ctl, stop_i, hist, sent, lost >>
workerVars == << wpc, wreq, wcomp, wtodo, cur >>
queueVars == << requestQ, completionQ, traverseQ, largeQ >>
pollVars == << polledC, polledT, polledL, pbatch >>
callerVars == << submitted, nextId >>
ownVars == << taken, freed >>
dtorVars == << dtor, leaked >>
packVars == << pin, pout, tm, fq >>
goVars == << gdb, gfifo >>
raceVars == << spc, sarg, si, sold, pools, pool_at >>
stopVars == << tpc, ti >>
allocVars == << abatch >>

\* Nothing is left allocated.
NoResidue == [entries |-> 0, request |-> << >>, completion |-> << >>,
              traverse |-> << >>, large |-> << >>]

\* No batch poll has been made.
NoBatch == [queue |-> "none", max |-> 0, count |-> 0, out |-> << >>]

NoReq == [type |-> 0, lo |-> 0, hi |-> 0, version |-> 0, key |-> << >>,
          traverse_limit |-> 0]

\* What a caller puts in a request besides the correlation id.
Req(type, key, version, limit) ==
    [type |-> type, key |-> key, version |-> version, traverse_limit |-> limit]

FindMenu ==
    { Req(REQ_FIND_VALUE, <<153>>, DataVersion, 0),      \* no such key
      Req(REQ_FIND_VALUE, << >>, DataVersion, 0),        \* root: no value
      Req(REQ_FIND_VALUE, <<120>>, DataVersion, 0),      \* B: 0 bytes
      Req(REQ_FIND_VALUE, <<18>>, DataVersion, 0),       \* A: 2 bytes
      Req(REQ_FIND_VALUE, <<18, 52>>, DataVersion, 0),   \* C: 256 bytes
      Req(REQ_FIND_VALUE, <<18, 86>>, DataVersion, 0),   \* D: 257 bytes
      Req(REQ_FIND_VALUE, <<18>>, DataVersion - 1, 0) }  \* A before it exists

NodeMenu ==
    { Req(REQ_FIND_NODE, <<18>>, DataVersion, 0),        \* A: data of 32 bytes
      Req(REQ_FIND_NODE, <<18, 86>>, DataVersion, 0) }   \* D: data of 20 bytes

TraverseMenu ==
    { Req(REQ_TRAVERSE, << >>, DataVersion, 1),          \* the root alone
      Req(REQ_TRAVERSE, <<18>>, DataVersion, 2),         \* under A, limit 2
      Req(REQ_TRAVERSE, <<18, 86>>, DataVersion, 0),     \* D, no limit
      Req(REQ_TRAVERSE, <<153>>, DataVersion, 0) }       \* no such prefix

OtherMenu ==
    { Req(REQ_SHUTDOWN, << >>, 0, 0),                    \* a caller's Shutdown
      Req(0, << >>, 0, 0) }                              \* left zero-initialised

Menu == FindMenu \cup NodeMenu \cup TraverseMenu \cup OtherMenu

\* The correlation id of the k-th request: user_data_lo, user_data_hi.
IdLo(k) == k
IdHi(k) == 100 + k

WithId(m, k) ==
    [type |-> m.type, lo |-> IdLo(k), hi |-> IdHi(k), version |-> m.version,
     key |-> m.key, traverse_limit |-> m.traverse_limit]

\* A RequestNode* that is nullptr, where the Request queue holds one.
NULL_NODE == 0 - 1
NullNode == [NoReq EXCEPT !.type = NULL_NODE]

\* No alloc_request_batch() is outstanding.
NoAlloc == [out |-> << >>, ret |-> 0, state |-> "idle"]

\* stop(): the Shutdown request of one loop iteration (alloc_request zeroes it).
ShutdownReq == [NoReq EXCEPT !.type = REQ_SHUTDOWN]

\* Allocation outcomes the environment may choose now: a failure uses up one
\* of the failures it may still inject.
Fails(ok) == IF ok THEN 0 ELSE 1

InitFrom(f, path) ==
    /\ running = FALSE
    /\ num_workers = 0
    /\ pool = FALSE
    /\ ctl = "idle"
    /\ stop_i = 0
    /\ wpc = [w \in Workers |-> "none"]
    /\ wreq = [w \in Workers |-> NoReq]
    /\ wcomp = [w \in Workers |-> ZeroCompletion]
    /\ wtodo = [w \in Workers |-> << >>]
    /\ cur = 0
    /\ requestQ = << >>
    /\ completionQ = << >>
    /\ traverseQ = << >>
    /\ largeQ = << >>
    /\ polledC = << >>
    /\ polledT = << >>
    /\ polledL = << >>
    /\ faults = f
    /\ dropped = {}
    /\ submitted = << >>
    /\ nextId = 1
    /\ hist = << >>
    /\ sent = 0
    /\ lost = 0
    /\ trieFaults = {}
    /\ done = {}
    /\ taken = << >>
    /\ freed = [k \in 0..MaxReq |-> 0]
    /\ dtor = "no"
    /\ leaked = NoResidue
    /\ pin = path
    /\ pout = << >>
    /\ pbatch = NoBatch
    /\ gdb = [ptr |-> FALSE, is_on_disk |-> FALSE, has_root |-> FALSE,
              root |-> {}, log |-> << >>]
    /\ gfifo = [ptr |-> FALSE, log |-> << >>]
    /\ spc = [t \in Callers |-> "idle"]
    /\ sarg = [t \in Callers |-> 0]
    /\ si = [t \in Callers |-> 0]
    /\ sold = [t \in Callers |-> 0]
    /\ pools = [t \in Callers |-> NoPool]
    /\ pool_at = 0
    /\ tpc = [t \in Callers |-> "idle"]
    /\ ti = [t \in Callers |-> 0]
    /\ fq = FifoCreated
    /\ abatch = NoAlloc
    /\ tm = [path_ |-> path, open |-> << >>, ups |-> 0,
             last |-> [branch |-> INVALID_BRANCH, before |-> << >>,
                       after |-> << >>]]

\* After construction, with f allocation failures to come.
InitWith(f) == InitFrom(f, << >>)

\* After construction; the environment may fail up to MaxFaults allocations.
Init == InitWith(MaxFaults)

\* A slip: the node is not freed.
FreeRequestSkipped(log, lo) == log

\* free_request(node): one more free of the request with this user_data_lo
\* (0 for the Shutdown requests stop() makes).
FreeRequest(log, lo) == [log EXCEPT ![lo] = @ + 1]

\* ------------------------------------------------------------ start, stop
\* A slip: start() does not look at running_.
StartAlreadyRunningNever(flag) == FALSE

\* A slip: the test of the exchanged value is inverted.
StopAlreadyStoppedInverted(prev) == prev

\* A slip: the result of the exchange is not tested.
StopAlreadyStoppedNever(prev) == FALSE

\* A slip: the loop sends one Shutdown, not one per worker.
StopLoopDoneEarly(i, n) == i >= 1

\* start(): if (running_.load()) return;
StartAlreadyRunning(flag) == flag

\* stop(): if (!running_.exchange(false)) return;   prev is what exchange read.
StopAlreadyStopped(prev) == ~prev

\* A slip: a load where the exchange is, running_ keeps its value.
StopExchangeKeeps(prev) == prev

\* stop(): running_.exchange(false): the value running_ holds afterwards.
StopExchange(prev) == FALSE

\* stop(): for (size_t i = 0; i < num_workers_; ++i): whether the loop ends.
StopLoopDone(i, n) == i >= n

\* A slip: the store is not made before the fibers are submitted.
RunningBeforeSpawnStale(prev) == prev

\* start(): running_.store(true) comes before the pool is made; the value
\* of running_ the submitted fibers find, prev being the value before.
RunningBeforeSpawn(prev) == TRUE

\* start(): if (num_workers == 0) num_workers = 1;
StartWorkers(n) == IF n = 0 THEN 1 ELSE n

\* start(num_workers) up to running_.store(true).
StartCall(n) ==
    /\ dtor = "no"
    /\ ctl = "idle"
    /\ Len(hist) < MaxCalls
    /\ hist' = Append(hist, "start")
    /\ IF StartAlreadyRunning(running)
       THEN UNCHANGED << running, num_workers, ctl >>
       ELSE /\ num_workers' = StartWorkers(n)
            /\ running' = RunningBeforeSpawn(running)
            /\ ctl' = "spawn"
    /\ UNCHANGED << dtorVars, packVars, goVars, raceVars, stopVars, allocVars, ownVars, pool, stop_i, sent, lost, workerVars, queueVars, pollVars, faults,
                    dropped, callerVars, trieFaults, done >>

\* start(): the pool is made and the worker fibers are submitted to it.
StartSpawn ==
    /\ ctl = "spawn"
    /\ pool' = TRUE
    /\ wpc' = [w \in Workers |-> IF w <= num_workers THEN "loop" ELSE "none"]
    /\ wreq' = [w \in Workers |-> NoReq]
    /\ wcomp' = [w \in Workers |-> ZeroCompletion]
    /\ wtodo' = [w \in Workers |-> << >>]
    /\ cur' = 0
    /\ ctl' = "idle"
    /\ UNCHANGED << dtorVars, packVars, goVars, raceVars, stopVars, allocVars, ownVars, running, num_workers, stop_i, hist, sent, lost, queueVars,
                    pollVars, faults, dropped, callerVars, trieFaults, done >>

\* stop() up to the loop: the exchange and the early return.
StopEntry ==
    /\ ctl = "idle"
    /\ hist' = Append(hist, "stop")
    /\ running' = StopExchange(running)
    /\ IF StopAlreadyStopped(running)
       THEN UNCHANGED << ctl, stop_i, sent, lost >>
       ELSE /\ ctl' = IF StopLoopDone(0, num_workers) THEN "join" ELSE "enq"
            /\ stop_i' = 0
            /\ sent' = 0
            /\ lost' = 0
    /\ UNCHANGED << leaked, packVars, goVars, raceVars, stopVars, allocVars, ownVars, num_workers, pool, workerVars,
                    queueVars, pollVars, faults, dropped, callerVars,
                    trieFaults, done >>

\* stop() called on a live manager.
StopCall ==
    /\ dtor = "no"
    /\ Len(hist) < MaxCalls
    /\ StopEntry
    /\ UNCHANGED dtor

\* stop(): one iteration of the loop that sends the Shutdown requests; ok
\* says that alloc_request and the entry allocation both succeeded.
StopEnqueue ==
    /\ ctl = "enq"
    /\ \E ok \in BOOLEAN :
          /\ Fails(ok) <= faults
          /\ faults' = faults - Fails(ok)
          /\ requestQ' = IF ok THEN Append(requestQ, ShutdownReq) ELSE requestQ
          /\ sent' = IF ok THEN sent + 1 ELSE sent
          /\ lost' = IF ok THEN lost ELSE lost + 1
    /\ stop_i' = stop_i + 1
    /\ ctl' = IF StopLoopDone(stop_i + 1, num_workers) THEN "join" ELSE "enq"
    /\ UNCHANGED << dtorVars, packVars, goVars, raceVars, stopVars, allocVars, ownVars, running, num_workers, pool, hist, workerVars, completionQ,
                    traverseQ, largeQ, pollVars, dropped, callerVars, trieFaults,
                    done >>

\* stop(): pool_.reset() returns once every fiber has finished; then
\* num_workers_ = 0.
StopJoin ==
    /\ ctl = "join"
    /\ \A w \in Workers : wpc[w] \in {"none", "term"}
    /\ pool' = FALSE
    /\ wpc' = [w \in Workers |-> "none"]
    /\ num_workers' = 0
    /\ ctl' = "idle"
    /\ UNCHANGED << dtorVars, packVars, goVars, raceVars, stopVars, allocVars, ownVars, running, stop_i, hist, sent, lost, wreq, wcomp, wtodo, cur,
                    queueVars,
                    pollVars, faults, dropped, callerVars, trieFaults, done >>

\* ----------------------------------------- start() from several threads
\* start() holds no lock: the load of running_, the write of num_workers_,
\* the store to running_, the assignment to pool_ and each pool_->submit
\* are steps of their own, and the steps of two threads interleave.  The
\* fibers submitted here find running_ true and an empty Request queue.

\* What every start() action leaves alone.
startRest == << ctl, stop_i, hist, sent, lost, workerVars, queueVars, pollVars,
                faults, dropped, callerVars, trieFaults, done, ownVars,
                dtorVars, packVars, goVars, stopVars, allocVars >>

\* start(): the load of running_, the early return, num_workers = 1 for 0.
StartRead(t, n) ==
    /\ dtor = "no"
    /\ ctl = "idle"
    /\ hist = << >>
    /\ spc[t] = "idle"
    /\ IF StartAlreadyRunning(running)
       THEN spc' = [spc EXCEPT ![t] = "done"]
       ELSE spc' = [spc EXCEPT ![t] = "assign"]
    /\ sarg' = [sarg EXCEPT ![t] = StartWorkers(n)]
    /\ UNCHANGED << running, num_workers, pool, si, sold, pools, pool_at,
                    startRest >>

\* start(): num_workers_ = num_workers;
StartSetWorkers(t) ==
    /\ spc[t] = "assign"
    /\ num_workers' = sarg[t]
    /\ spc' = [spc EXCEPT ![t] = "store"]
    /\ UNCHANGED << running, pool, sarg, si, sold, pools, pool_at, startRest >>

\* start(): running_.store(true);
StartStore(t) ==
    /\ spc[t] = "store"
    /\ running' = RunningBeforeSpawn(running)
    /\ spc' = [spc EXCEPT ![t] = "make"]
    /\ UNCHANGED << num_workers, pool, sarg, si, sold, pools, pool_at,
                    startRest >>

\* start(): std::make_unique<fiber::PriorityPool>(1, num_workers), and the
\* assignment reads the pointer pool_ holds.
StartMakePool(t) ==
    /\ spc[t] = "make"
    /\ pools' = [pools EXCEPT ![t] = [state |-> "live", fibers |-> 0]]
    /\ sold' = [sold EXCEPT ![t] = pool_at]
    /\ spc' = [spc EXCEPT ![t] = "swap"]
    /\ UNCHANGED << running, num_workers, pool, sarg, si, pool_at, startRest >>

\* start(): pool_ = ...: pool_ takes the new pool and the pool it held is
\* destroyed.  ~PriorityPool waits for the pool's fibers, and a worker
\* fiber does not finish while running_ is true and no Shutdown request
\* comes: the thread stays in the destructor ("join").
StartAssignPool(t) ==
    /\ spc[t] = "swap"
    /\ pool_at' = t
    /\ pool' = TRUE
    /\ IF sold[t] = 0 \/ pools[sold[t]].state # "live"
       THEN /\ spc' = [spc EXCEPT ![t] = "spawn"]
            /\ UNCHANGED pools
       ELSE IF pools[sold[t]].fibers = 0
            THEN /\ spc' = [spc EXCEPT ![t] = "spawn"]
                 /\ pools' = [pools EXCEPT ![sold[t]].state = "gone"]
            ELSE /\ spc' = [spc EXCEPT ![t] = "join"]
                 /\ UNCHANGED pools
    /\ si' = [si EXCEPT ![t] = 0]
    /\ UNCHANGED << running, num_workers, sarg, sold, startRest >>

\* start(): one iteration of the loop: pool_->submit(0, worker_fiber) goes
\* to the pool pool_ holds at that moment.
StartSubmit(t) ==
    /\ spc[t] = "spawn"
    /\ pool_at # 0
    /\ pools' = [pools EXCEPT ![pool_at].fibers = @ + 1]
    /\ si' = [si EXCEPT ![t] = @ + 1]
    /\ spc' = [spc EXCEPT ![t] = IF si[t] + 1 < sarg[t] THEN "spawn"
                                 ELSE "done"]
    /\ UNCHANGED << running, num_workers, pool, sarg, sold, pool_at,
                    startRest >>

\* ------------------------------------------ stop() from several threads
\* stop() holds no lock either; the exchange on running_ is one atomic
\* step, each iteration of the loop and pool_.reset() are steps of their
\* own.

\* What every stop() action of a thread leaves alone.
stopRest == << ctl, stop_i, hist, wreq, wcomp, wtodo, cur, completionQ,
               traverseQ, largeQ, pollVars, dropped, callerVars, trieFaults,
               done, ownVars, dtorVars, packVars, goVars, raceVars,
               allocVars >>

\* stop() in thread t up to the loop: the exchange and the early return.
StopExchangeBy(t) ==
    /\ dtor = "no"
    /\ ctl = "idle"
    /\ hist = << "start" >>
    /\ tpc[t] = "idle"
    /\ running' = StopExchange(running)
    /\ IF StopAlreadyStopped(running)
       THEN /\ tpc' = [tpc EXCEPT ![t] = "returned"]
            /\ UNCHANGED << ti, sent, lost >>
       ELSE /\ tpc' = [tpc EXCEPT ![t] = IF StopLoopDone(0, num_workers)
                                         THEN "join" ELSE "enq"]
            /\ ti' = [ti EXCEPT ![t] = 0]
            /\ sent' = 0
            /\ lost' = 0
    /\ UNCHANGED << num_workers, pool, wpc, requestQ, faults, stopRest >>

\* stop() in thread t: one iteration of the loop that sends the Shutdown
\* requests.
StopEnqueueBy(t) ==
    /\ tpc[t] = "enq"
    /\ \E ok \in BOOLEAN :
          /\ Fails(ok) <= faults
          /\ faults' = faults - Fails(ok)
          /\ requestQ' = IF ok THEN Append(requestQ, ShutdownReq) ELSE requestQ
          /\ sent' = IF ok THEN sent + 1 ELSE sent
          /\ lost' = IF ok THEN lost ELSE lost + 1
    /\ ti' = [ti EXCEPT ![t] = @ + 1]
    /\ tpc' = [tpc EXCEPT ![t] = IF StopLoopDone(ti[t] + 1, num_workers)
                                 THEN "join" ELSE "enq"]
    /\ UNCHANGED << running, num_workers, pool, wpc, stopRest >>

\* stop() in thread t: pool_.reset() returns once every fiber has
\* finished; then num_workers_ = 0.
StopJoinBy(t) ==
    /\ tpc[t] = "join"
    /\ \A w \in Workers : wpc[w] \in {"none", "term"}
    /\ pool' = FALSE
    /\ wpc' = [w \in Workers |-> "none"]
    /\ num_workers' = 0
    /\ tpc' = [tpc EXCEPT ![t] = "done"]
    /\ UNCHANGED << running, ti, sent, lost, requestQ, faults, stopRest >>

\* ---------------------------------------------------------- ~FifoManager
\* ck_fifo_mpmc_wrapper_destroy(fifo) on a queue that holds the payloads q:
\* it frees the one entry deinit hands back (the head) and the wrapper.  What
\* stays allocated: the entries that link the payloads, and the payloads.
DestroyResidue(q) == [entries |-> Len(q), nodes |-> q]

\* ~FifoManager(): stop();
DtorCall ==
    /\ dtor = "no"
    /\ StopEntry
    /\ dtor' = "stopping"

\* ~FifoManager() once stop() has returned: the four queues are destroyed
\* and their pointers set to nullptr.
DtorQueues ==
    /\ dtor = "stopping"
    /\ ctl = "idle"
    /\ dtor' = "done"
    /\ leaked' = [entries    |-> DestroyResidue(requestQ).entries
                                 + DestroyResidue(completionQ).entries
                                 + DestroyResidue(traverseQ).entries
                                 + DestroyResidue(largeQ).entries,
                  request    |-> DestroyResidue(requestQ).nodes,
                  completion |-> DestroyResidue(completionQ).nodes,
                  traverse   |-> DestroyResidue(traverseQ).nodes,
                  large      |-> DestroyResidue(largeQ).nodes]
    /\ requestQ' = << >>
    /\ completionQ' = << >>
    /\ traverseQ' = << >>
    /\ largeQ' = << >>
    /\ UNCHANGED << lifeVars, workerVars, pollVars, faults, dropped, callerVars,
                    trieFaults, done, ownVars, packVars, goVars, raceVars, stopVars, allocVars >>

\* ------------------------------------------------------- submit, the polls
\* submit(node): the Request queue after the call; ok says the entry
\* allocation succeeded.
SubmitEnqueue(q, node, ok) == IF ok THEN Append(q, node) ELSE q

\* submit(node): the free_request call made when the entry allocation failed.
SubmitFree(log, node, ok) == IF ok THEN log ELSE FreeRequest(log, node.lo)

\* submit(node) for a fresh request; ok says the entry allocation succeeded.
Submit(m) ==
    /\ dtor = "no"
    /\ nextId <= MaxReq
    /\ \E ok \in BOOLEAN :
          /\ Fails(ok) <= faults
          /\ faults' = faults - Fails(ok)
          /\ requestQ' = SubmitEnqueue(requestQ, WithId(m, nextId), ok)
          /\ submitted' = SubmitEnqueue(submitted, WithId(m, nextId), ok)
          /\ dropped' = IF ok THEN dropped
                        ELSE dropped \cup { <<IdLo(nextId), "request", "">> }
          /\ freed' = SubmitFree(freed, WithId(m, nextId), ok)
    /\ nextId' = nextId + 1
    /\ UNCHANGED taken
    /\ UNCHANGED << dtorVars, packVars, goVars, raceVars, stopVars, allocVars, lifeVars, workerVars, completionQ, traverseQ, largeQ,
                    pollVars, trieFaults, done >>

\* A slip: "break" for "continue", the loop ends at the first node whose
\* entry allocation fails.
RECURSIVE BatchEnqueueStopsAtFailure(_, _, _)
BatchEnqueueStopsAtFailure(q, nodes, oks) ==
    IF nodes = << >> \/ ~Head(oks) THEN q
    ELSE BatchEnqueueStopsAtFailure(Append(q, Head(nodes)), Tail(nodes),
                                    Tail(oks))

\* A slip: the loop runs from the last node to the first.
RECURSIVE BatchEnqueueReversed(_, _, _)
BatchEnqueueReversed(q, nodes, oks) ==
    IF nodes = << >> THEN q
    ELSE BatchEnqueueReversed(
             IF oks[Len(oks)] THEN Append(q, nodes[Len(nodes)]) ELSE q,
             SubSeq(nodes, 1, Len(nodes) - 1), SubSeq(oks, 1, Len(oks) - 1))

\* submit_batch(nodes, count) for fresh requests ms; oks[i] says the entry
\* allocation of nodes[i] succeeded.  The loop is one step here; enqueues of
\* a batch that interleave with other threads are runs of Submit.
RECURSIVE BatchEnqueue(_, _, _)
BatchEnqueue(q, nodes, oks) ==
    IF nodes = << >> THEN q
    ELSE BatchEnqueue(IF Head(oks) THEN Append(q, Head(nodes)) ELSE q,
                      Tail(nodes), Tail(oks))

\* submit_batch(): the free_request calls for the nodes whose entry
\* allocation failed.
RECURSIVE BatchFree(_, _, _)
BatchFree(log, nodes, oks) ==
    IF nodes = << >> THEN log
    ELSE BatchFree(IF Head(oks) THEN log ELSE FreeRequest(log, Head(nodes).lo),
                   Tail(nodes), Tail(oks))

SubmitBatch(ms, oks) ==
    LET count == Len(ms)
        nodes == [i \in 1..count |-> WithId(ms[i], nextId + i - 1)]
        fails == Cardinality({ i \in 1..count : ~oks[i] })
    IN /\ dtor = "no"
       /\ nextId + count - 1 <= MaxReq
       /\ fails <= faults
       /\ faults' = faults - fails
       /\ requestQ' = BatchEnqueue(requestQ, nodes, oks)
       /\ submitted' = BatchEnqueue(submitted, nodes, oks)
       /\ dropped' = dropped \cup { <<nodes[i].lo, "request", "">> :
                                      i \in { j \in 1..count : ~oks[j] } }
       /\ freed' = BatchFree(freed, nodes, oks)
       /\ nextId' = nextId + count
       /\ UNCHANGED taken
       /\ UNCHANGED << dtorVars, packVars, goVars, raceVars, stopVars, allocVars, lifeVars, workerVars, completionQ, traverseQ, largeQ,
                       pollVars, trieFaults, done >>

\* alloc_request_batch(out, count): return count;
AllocBatchReturn(oks, count) == count

\* alloc_request_batch(out, count): out[i] = alloc_request() for every i;
\* oks[i] says that allocation succeeded (out[i] is then a zeroed node).
AllocRequestBatch(count, oks) ==
    /\ dtor = "no"
    /\ abatch.state = "idle"
    /\ nextId + count - 1 <= MaxReq
    /\ Cardinality({ i \in 1..count : ~oks[i] }) <= faults
    /\ faults' = faults - Cardinality({ i \in 1..count : ~oks[i] })
    /\ abatch' = [out |-> oks, ret |-> AllocBatchReturn(oks, count),
                  state |-> "allocated"]
    /\ UNCHANGED << lifeVars, workerVars, queueVars, pollVars, dropped,
                    callerVars, trieFaults, done, ownVars, dtorVars, packVars,
                    goVars, raceVars, stopVars >>

\* The caller fills the nodes it was given (ms, the null ones it cannot)
\* and calls submit_batch(out, ret) with the count alloc_request_batch
\* returned; eoks[i] says the entry allocation for nodes[i] succeeded.  A
\* null nodes[i] is enqueued like any other pointer; on a failed entry
\* allocation it is not freed (if (nodes[i])).
SubmitAllocated(ms, eoks) ==
    LET count == abatch.ret
        nodes == [i \in 1..count |->
                    IF i <= Len(abatch.out) /\ abatch.out[i]
                    THEN WithId(ms[i], nextId + i - 1) ELSE NullNode]
        fails == Cardinality({ i \in 1..count : ~eoks[i] })
        real  == { i \in 1..count : nodes[i] # NullNode }
    IN /\ dtor = "no"
       /\ abatch.state = "allocated"
       /\ Len(ms) = count /\ Len(eoks) = count
       /\ fails <= faults
       /\ faults' = faults - fails
       /\ requestQ' = BatchEnqueue(requestQ, nodes, eoks)
       /\ submitted' = BatchEnqueue(submitted, nodes, eoks)
       /\ dropped' = dropped \cup { <<nodes[i].lo, "request", "">> :
                                      i \in { j \in real : ~eoks[j] } }
       /\ freed' = [k \in DOMAIN freed |->
                      freed[k] + Cardinality({ i \in real :
                                     ~eoks[i] /\ nodes[i].lo = k })]
       /\ nextId' = nextId + count
       /\ abatch' = [abatch EXCEPT !.state = "idle"]
       /\ UNCHANGED taken
       /\ UNCHANGED << lifeVars, workerVars, completionQ, traverseQ, largeQ,
                       pollVars, trieFaults, done, dtorVars, packVars, goVars,
                       raceVars, stopVars >>

\* poll_completion() when it returns a node.
PollCompletion ==
    /\ dtor = "no"
    /\ completionQ # << >>
    /\ polledC' = Append(polledC, Head(completionQ))
    /\ completionQ' = Tail(completionQ)
    /\ UNCHANGED << dtorVars, packVars, goVars, raceVars, stopVars, allocVars, ownVars, lifeVars, workerVars, requestQ, traverseQ, largeQ, polledT,
                    polledL, pbatch, faults, dropped, callerVars, trieFaults, done >>

\* poll_traverse() when it returns a node.
PollTraverse ==
    /\ dtor = "no"
    /\ traverseQ # << >>
    /\ polledT' = Append(polledT, Head(traverseQ))
    /\ traverseQ' = Tail(traverseQ)
    /\ UNCHANGED << dtorVars, packVars, goVars, raceVars, stopVars, allocVars, ownVars, lifeVars, workerVars, requestQ, completionQ, largeQ,
                    polledC, polledL, pbatch, faults, dropped, callerVars,
                    trieFaults, done >>

\* poll_large_value() when it returns a node.
PollLargeValue ==
    /\ dtor = "no"
    /\ largeQ # << >>
    /\ polledL' = Append(polledL, Head(largeQ))
    /\ largeQ' = Tail(largeQ)
    /\ UNCHANGED << dtorVars, packVars, goVars, raceVars, stopVars, allocVars, ownVars, lifeVars, workerVars, requestQ, completionQ, traverseQ,
                    polledC, polledT, pbatch, faults, dropped, callerVars,
                    trieFaults, done >>

\* ck_fifo_mpmc_wrapper_dequeue(fifo, &garbage) on a queue that holds q: the
\* value it returns (none when the queue is empty) and the queue it leaves.
MpmcDequeue(q) ==
    IF q = << >> THEN [out |-> << >>, rest |-> q]
    ELSE [out |-> << Head(q) >>, rest |-> Tail(q)]

\* A slip: "while (true)", max_count is not looked at.
RECURSIVE PollBatchIgnoresMax(_, _, _)
PollBatchIgnoresMax(q, out, max_count) ==
    LET d == MpmcDequeue(q)
    IN IF d.out = << >> THEN [out |-> out, rest |-> q]
       ELSE PollBatchIgnoresMax(d.rest, out \o d.out, max_count)

\* poll_completion_batch / poll_traverse_batch: the loop, from the nodes out
\* written so far (count is Len(out)); the nodes written and the queue left.
RECURSIVE PollBatch(_, _, _)
PollBatch(q, out, max_count) ==
    IF ~(Len(out) < max_count) THEN [out |-> out, rest |-> q]
    ELSE LET d == MpmcDequeue(q)
         IN IF d.out = << >> THEN [out |-> out, rest |-> q]
            ELSE PollBatch(d.rest, out \o d.out, max_count)

\* poll_completion_batch(out, max_count)
PollCompletionBatch(max_count) ==
    LET r == PollBatch(completionQ, << >>, max_count)
    IN /\ dtor = "no"
       /\ completionQ' = r.rest
       /\ polledC' = polledC \o r.out
       /\ pbatch' = [queue |-> "completion", max |-> max_count,
                     count |-> Len(r.out), out |-> r.out]
       /\ UNCHANGED << dtorVars, packVars, goVars, raceVars, stopVars, allocVars, ownVars, lifeVars, workerVars,
                       requestQ, traverseQ, largeQ, polledT, polledL, faults,
                       dropped, callerVars, trieFaults, done >>

\* poll_traverse_batch(out, max_count)
PollTraverseBatch(max_count) ==
    LET r == PollBatch(traverseQ, << >>, max_count)
    IN /\ dtor = "no"
       /\ traverseQ' = r.rest
       /\ polledT' = polledT \o r.out
       /\ pbatch' = [queue |-> "traverse", max |-> max_count,
                     count |-> Len(r.out), out |-> r.out]
       /\ UNCHANGED << dtorVars, packVars, goVars, raceVars, stopVars, allocVars, ownVars, lifeVars, workerVars,
                       requestQ, completionQ, largeQ, polledC, polledL, faults,
                       dropped, callerVars, trieFaults, done >>

\* A slip: every step of a fiber consults running_, a request in hand when
\* stop() clears the flag is abandoned.
RunsNowWhileRunning(w) ==
    running /\ pool /\ cur \in {0, w} /\ wpc[w] \notin {"none", "term"}

\* ------------------------------------------------------------ worker_fiber
\* The pool runs its fibers on one thread: a fiber runs until it yields or
\* ends, and then any fiber that is not finished may run.
RunsNow(w) == pool /\ cur \in {0, w} /\ wpc[w] \notin {"none", "term"}

\* A slip: while (true), the fiber ends on a Shutdown request only.
LoopGoesOnAlways(flag) == TRUE

\* while (running_.load(...)): whether the loop goes on.
LoopGoesOn(flag) == flag

\* The top of the loop: the fiber reads running_.
WCheck(w) ==
    /\ RunsNow(w)
    /\ wpc[w] = "loop"
    /\ IF LoopGoesOn(running)
       THEN wpc' = [wpc EXCEPT ![w] = "deq"] /\ cur' = w
       ELSE wpc' = [wpc EXCEPT ![w] = "term"] /\ cur' = 0
    /\ UNCHANGED << dtorVars, packVars, goVars, raceVars, stopVars, allocVars, ownVars, lifeVars, wreq, wcomp, wtodo, queueVars, pollVars, faults,
                    dropped, callerVars, trieFaults, done >>

\* A slip: a default case that returns, a request of unknown type ends the
\* fiber.
DispatchEndsOnUnknown(type) ==
    CASE type \in {REQ_FIND_VALUE, REQ_FIND_NODE} -> "find"
      [] type = REQ_TRAVERSE -> "trav"
      [] OTHER -> "term"

\* A slip: case REQ_TRAVERSE falls in with the finds.
DispatchTraverseAsFind(type) ==
    CASE type \in {REQ_FIND_VALUE, REQ_FIND_NODE, REQ_TRAVERSE} -> "find"
      [] type = REQ_SHUTDOWN -> "term"
      [] OTHER -> "loop"

\* A slip: a default label on the find cases.
DispatchUnknownAsFind(type) ==
    CASE type = REQ_TRAVERSE -> "trav"
      [] type = REQ_SHUTDOWN -> "term"
      [] OTHER -> "find"

\* switch (node->req.type): where the fiber goes with the request.
Dispatch(type) ==
    CASE type \in {REQ_FIND_VALUE, REQ_FIND_NODE} -> "find"
      [] type = REQ_TRAVERSE -> "trav"
      [] type = REQ_SHUTDOWN -> "term"
      [] OTHER -> "loop"

\* A slip: "return" for "continue", an empty queue ends the fiber.
AfterEmptyDequeueReturns == "term"

\* if (!value) { yield(); continue; }: where the fiber goes on after the
\* yield.
AfterEmptyDequeue == "loop"

\* The dequeue from request_fifo_: empty, the fiber yields (it is in
\* boost::this_fiber::yield() while it is at "loop" and is not the running
\* fiber, and goes on from the top of the loop); a null payload is taken
\* off the queue and then treated as an empty queue (if (!value));
\* otherwise it takes the request (a Shutdown or an unknown type is freed
\* at once).
WDequeue(w) ==
    /\ RunsNow(w)
    /\ wpc[w] = "deq"
    /\ IF requestQ = << >>
       THEN /\ wpc' = [wpc EXCEPT ![w] = AfterEmptyDequeue]
            /\ cur' = 0
            /\ UNCHANGED << requestQ, wreq, done, taken, freed >>
       ELSE IF Head(requestQ) = NullNode
       THEN /\ requestQ' = Tail(requestQ)
            /\ wpc' = [wpc EXCEPT ![w] = AfterEmptyDequeue]
            /\ cur' = 0
            /\ UNCHANGED << wreq, done, taken, freed >>
       ELSE LET req == Head(requestQ)
                to  == Dispatch(req.type)
            IN /\ requestQ' = Tail(requestQ)
               /\ wpc' = [wpc EXCEPT ![w] = to]
               /\ cur' = IF to = "term" THEN 0 ELSE w
               /\ wreq' = [wreq EXCEPT ![w] = IF to \in {"find", "trav"}
                                                THEN req ELSE NoReq]
               /\ done' = IF to \in {"find", "trav"} THEN done
                          ELSE done \cup {req}
               /\ taken' = Append(taken, req.lo)
               /\ freed' = IF to \in {"find", "trav"} THEN freed
                           ELSE FreeRequest(freed, req.lo)
    /\ UNCHANGED << dtorVars, packVars, goVars, raceVars, stopVars, allocVars, lifeVars, wcomp, wtodo, completionQ, traverseQ, largeQ,
                    pollVars, faults, dropped, callerVars, trieFaults >>

\* A trie call waits for I/O: the fiber is suspended inside db_.find or
\* db_.traverse and another fiber may run.
WTrieYield(w) ==
    /\ pool
    /\ cur = w
    /\ wpc[w] \in {"find", "trav", "walk"}
    /\ cur' = 0
    /\ UNCHANGED << dtorVars, packVars, goVars, raceVars, stopVars, allocVars, ownVars, lifeVars, wpc, wreq, wcomp, wtodo, queueVars, pollVars,
                    faults, dropped, callerVars, trieFaults, done >>

\* process_find(): the lookup, the Completion, post_large_value for a value
\* over the inline capacity.  A value that fits is posted by the same step
\* (post_completion, then free_request in worker_fiber).
WFind(w) ==
    /\ RunsNow(w)
    /\ wpc[w] = "find"
    /\ \E fault \in Faults, okL \in BOOLEAN, okC \in BOOLEAN :
          LET req   == wreq[w]
              comp  == FindComp(req, fault)
              large == FindPostsLarge(req, fault)
          IN /\ large \/ okL
             /\ ~large \/ okC
             /\ Fails(okL) + Fails(okC) <= faults
             /\ faults' = faults - Fails(okL) - Fails(okC)
             /\ trieFaults' = IF fault = "none" THEN trieFaults
                              ELSE trieFaults \cup { <<req.lo, fault>> }
             /\ IF large
                THEN /\ largeQ' = PostLargeValue(largeQ, req.lo, req.hi,
                                     Trie[DbFind(req.key, req.version)].value, okL)
                     /\ dropped' = IF okL THEN dropped
                                   ELSE dropped \cup { <<req.lo, "large", "">> }
                     /\ wcomp' = [wcomp EXCEPT ![w] = comp]
                     /\ wpc' = [wpc EXCEPT ![w] = "post"]
                     /\ UNCHANGED << completionQ, wreq, done, freed >>
                ELSE /\ completionQ' = PostCompletion(completionQ, comp, okC)
                     /\ dropped' = IF okC THEN dropped
                                   ELSE dropped \cup { <<req.lo, "completion", "">> }
                     /\ wreq' = [wreq EXCEPT ![w] = NoReq]
                     /\ done' = done \cup {req}
                     /\ freed' = FreeRequest(freed, req.lo)
                     /\ wpc' = [wpc EXCEPT ![w] = "loop"]
                     /\ UNCHANGED << largeQ, wcomp >>
    /\ cur' = w
    /\ UNCHANGED << dtorVars, packVars, goVars, raceVars, stopVars, allocVars, lifeVars, wtodo, requestQ, traverseQ, pollVars,
                    callerVars, taken >>

\* process_find() after post_large_value: post_completion, then
\* free_request in worker_fiber.
WPost(w) ==
    /\ RunsNow(w)
    /\ wpc[w] = "post"
    /\ \E ok \in BOOLEAN :
          /\ Fails(ok) <= faults
          /\ faults' = faults - Fails(ok)
          /\ completionQ' = PostCompletion(completionQ, wcomp[w], ok)
          /\ dropped' = IF ok THEN dropped
                        ELSE dropped \cup { <<wreq[w].lo, "completion", "">> }
    /\ done' = done \cup {wreq[w]}
    /\ freed' = FreeRequest(freed, wreq[w].lo)
    /\ taken' = taken
    /\ wreq' = [wreq EXCEPT ![w] = NoReq]
    /\ wcomp' = [wcomp EXCEPT ![w] = ZeroCompletion]
    /\ wpc' = [wpc EXCEPT ![w] = "loop"]
    /\ cur' = w
    /\ UNCHANGED << dtorVars, packVars, goVars, raceVars, stopVars, allocVars, lifeVars, wtodo, requestQ, traverseQ, largeQ, pollVars,
                    callerVars, trieFaults >>

\* process_traverse(): the nodes send_node will be called for, in order.
SendsOf(req, fault) ==
    LET n == DbFind(req.key, req.version)
    IN IF fault = "none" /\ n # "none"
       THEN SelectSeq(DbTraverse(n, NibblesOf(req.key),
                                 EffectiveLimit(req.traverse_limit)),
                      LAMBDA v : Trie[v.node].has_value)
       ELSE << >>

\* process_traverse(): db_.find of the prefix and the start of the walk.
WTravStart(w) ==
    /\ RunsNow(w)
    /\ wpc[w] = "trav"
    /\ \E fault \in Faults :
          /\ wtodo' = [wtodo EXCEPT ![w] = SendsOf(wreq[w], fault)]
          /\ trieFaults' = IF fault = "none" THEN trieFaults
                           ELSE trieFaults \cup { <<wreq[w].lo, fault>> }
    /\ wpc' = [wpc EXCEPT ![w] = "walk"]
    /\ cur' = w
    /\ UNCHANGED << dtorVars, packVars, goVars, raceVars, stopVars, allocVars, ownVars, lifeVars, wreq, wcomp, queueVars, pollVars, faults, dropped,
                    callerVars, done >>

\* The walk reaches its next value-bearing node: send_node posts the large
\* value (if any) and the TraverseMore; or the trie throws and the walk ends.
WTravNode(w) ==
    /\ RunsNow(w)
    /\ wpc[w] = "walk"
    /\ wtodo[w] # << >>
    /\ \E throw \in BOOLEAN, okL \in BOOLEAN, okT \in BOOLEAN :
          LET req   == wreq[w]
              v     == Head(wtodo[w])
              large == ~FitsInline(Len(Trie[v.node].value))
          IN IF throw
             THEN /\ okL /\ okT
                  /\ wtodo' = [wtodo EXCEPT ![w] = << >>]
                  /\ trieFaults' = trieFaults \cup { <<req.lo, "throw">> }
                  /\ UNCHANGED << largeQ, traverseQ, faults, dropped >>
             ELSE /\ large \/ okL
                  /\ Fails(okL) + Fails(okT) <= faults
                  /\ faults' = faults - Fails(okL) - Fails(okT)
                  /\ largeQ' = IF large
                               THEN PostLargeValue(largeQ, req.lo, req.hi,
                                                   Trie[v.node].value, okL)
                               ELSE largeQ
                  /\ traverseQ' = PostTraverse(traverseQ,
                                     SendNodeComp(req.lo, req.hi, v.node, v.path),
                                     okT)
                  /\ dropped' = dropped
                        \cup (IF okL THEN {} ELSE { <<req.lo, "large", v.node>> })
                        \cup (IF okT THEN {} ELSE { <<req.lo, "more", v.node>> })
                  /\ wtodo' = [wtodo EXCEPT ![w] = Tail(@)]
                  /\ UNCHANGED trieFaults
    /\ cur' = w
    /\ UNCHANGED << dtorVars, packVars, goVars, raceVars, stopVars, allocVars, ownVars, lifeVars, wpc, wreq, wcomp, requestQ, completionQ, pollVars,
                    callerVars, done >>

\* process_traverse() after the walk: the TraverseEnd, then free_request in
\* worker_fiber.
WTravEnd(w) ==
    /\ RunsNow(w)
    /\ wpc[w] = "walk"
    /\ wtodo[w] = << >>
    /\ \E ok \in BOOLEAN :
          /\ Fails(ok) <= faults
          /\ faults' = faults - Fails(ok)
          /\ traverseQ' = PostTraverse(traverseQ, TraverseEndComp(wreq[w]), ok)
          /\ dropped' = IF ok THEN dropped
                        ELSE dropped \cup { <<wreq[w].lo, "end", "">> }
    /\ done' = done \cup {wreq[w]}
    /\ freed' = FreeRequest(freed, wreq[w].lo)
    /\ taken' = taken
    /\ wreq' = [wreq EXCEPT ![w] = NoReq]
    /\ wpc' = [wpc EXCEPT ![w] = "loop"]
    /\ cur' = w
    /\ UNCHANGED << dtorVars, packVars, goVars, raceVars, stopVars, allocVars, lifeVars, wcomp, wtodo, requestQ, completionQ, largeQ,
                    pollVars, callerVars, trieFaults >>

\* ---------------------------------------------------------- the Go binding
\* What the Go binding and its C API leave alone: the whole Rust-side bridge.
bridgeVars == << lifeVars, workerVars, queueVars, pollVars, faults, dropped,
                 callerVars, trieFaults, done, ownVars, dtorVars, packVars,
                 raceVars, stopVars, allocVars >>

\* NomadError
NOMAD_OK == 0
NOMAD_ERR_NOT_SUPPORTED == 6
NOMAD_ERR_INTERNAL == 255

\* codeToError(code): the Go error of a C error code ("nil": no error).
CodeToError(code) ==
    CASE code = 0 -> "nil"
      [] code = 1 -> "ErrNullPointer"
      [] code = 2 -> "ErrInvalidArgument"
      [] code = 3 -> "ErrNotFound"
      [] code = 4 -> "ErrIO"
      [] code = 5 -> "ErrVersionOutOfRange"
      [] code = 6 -> "ErrNotSupported"
      [] code = 7 -> "ErrOutOfMemory"
      [] OTHER -> "unknown error code"

\* One more call in a log of calls.
GoLogged(g, call, ret) ==
    [g EXCEPT !.log = Append(@, [call |-> call, ret |-> ret])]

\* OpenMemory(): nomad_db_open_memory; ok says the allocations succeeded.
GoOpenMemory ==
    /\ ~gdb.ptr
    /\ gdb.log = << >>
    /\ \E ok \in BOOLEAN :
          gdb' = IF ok THEN [gdb EXCEPT !.ptr = TRUE, !.is_on_disk = FALSE]
                 ELSE gdb
    /\ UNCHANGED << bridgeVars, gfifo >>

\* db.CreateFifo(): nomad_fifo_create makes the placeholder.
GoCreateFifo ==
    /\ ~gfifo.ptr
    /\ gfifo.log = << >>
    /\ gdb.ptr
    /\ \E ok \in BOOLEAN :
          gfifo' = IF ok THEN [gfifo EXCEPT !.ptr = TRUE] ELSE gfifo
    /\ UNCHANGED << bridgeVars, gdb >>

\* A slip: the stub says a completion is there and writes none.
NomadFifoPollReady == TRUE

\* nomad_fifo_poll, nomad_fifo_poll_traverse, nomad_fifo_poll_large_value:
\* the value returned.
NomadFifoPoll == FALSE
NomadFifoPollTraverse == FALSE
NomadFifoPollLargeValue == FALSE

\* Fifo.Start, Fifo.Stop, Fifo.SubmitFind, Fifo.SubmitTraverse: the C
\* function called (when f.ptr is not nil) does nothing.
GoFifoVoid(call) ==
    /\ Len(gfifo.log) < MaxGoCalls
    /\ gfifo' = GoLogged(gfifo, call, "void")
    /\ UNCHANGED << bridgeVars, gdb >>

\* Fifo.IsImplemented()
GoIsImplemented ==
    /\ Len(gfifo.log) < MaxGoCalls
    /\ gfifo' = GoLogged(gfifo, "IsImplemented", "false")
    /\ UNCHANGED << bridgeVars, gdb >>

\* Fifo.Poll(), Fifo.PollTraverse(), Fifo.PollLargeValue(): nil when f.ptr
\* is nil or the C function returns false, else a record built from what
\* the C function wrote.
GoPollResult(ptr, ready, record) ==
    IF ~ptr THEN "nil" ELSE IF ~ready THEN "nil" ELSE record

GoPoll ==
    /\ Len(gfifo.log) < MaxGoCalls
    /\ gfifo' = GoLogged(gfifo, "Poll",
                         GoPollResult(gfifo.ptr, NomadFifoPoll, "Completion"))
    /\ UNCHANGED << bridgeVars, gdb >>

GoPollTraverse ==
    /\ Len(gfifo.log) < MaxGoCalls
    /\ gfifo' = GoLogged(gfifo, "PollTraverse",
                         GoPollResult(gfifo.ptr, NomadFifoPollTraverse,
                                      "Completion"))
    /\ UNCHANGED << bridgeVars, gdb >>

GoPollLargeValue ==
    /\ Len(gfifo.log) < MaxGoCalls
    /\ gfifo' = GoLogged(gfifo, "PollLargeValue",
                         GoPollResult(gfifo.ptr, NomadFifoPollLargeValue,
                                      "LargeValue"))
    /\ UNCHANGED << bridgeVars, gdb >>

\* Fifo.Destroy(): nomad_fifo_destroy, f.ptr = nil.
GoDestroy ==
    /\ Len(gfifo.log) < MaxGoCalls
    /\ gfifo' = [GoLogged(gfifo, "Destroy", "void") EXCEPT !.ptr = FALSE]
    /\ UNCHANGED << bridgeVars, gdb >>

\* The Go binding's Fifo over an in-memory database: any calls in any order.
GoFifoNext ==
    \/ GoOpenMemory
    \/ GoCreateFifo
    \/ \E call \in {"Start", "Stop", "SubmitFind", "SubmitTraverse"} :
          GoFifoVoid(call)
    \/ GoIsImplemented
    \/ GoPoll
    \/ GoPollTraverse
    \/ GoPollLargeValue
    \/ GoDestroy

GoFifoSpec == Init /\ [][GoFifoNext]_vars

\* The keys and values the Go caller writes and looks up (never empty).
GoKeys == { <<1>>, <<2>> }
GoValues == { <<118>>, <<119, 120>> }

\* mpt::Db::upsert on the in-memory trie: what the new root holds, as a set
\* of << key, value >>.
EngineUpsert(root, key, value) ==
    { p \in root : p[1] # key } \cup { << key, value >> }

\* mpt::Db::find(cursor, key, version) from a root: whether a node is there,
\* and its value.
EngineFind(root, key) ==
    IF \E p \in root : p[1] = key
    THEN [found |-> TRUE, value |-> (CHOOSE p \in root : p[1] = key)[2]]
    ELSE [found |-> FALSE, value |-> << >>]

\* A slip: the mode of the database is not tested.
NomadDbFindAnyMode(db, key) ==
    [code  |-> NOMAD_OK,
     found |-> EngineFind(db.root, key).found,
     value |-> EngineFind(db.root, key).value]

\* nomad_db_find(db, key, key_len, version, &node) on an open database: the
\* code returned and *node_out.
NomadDbFind(db, key) ==
    IF ~db.is_on_disk
    THEN [code |-> NOMAD_ERR_NOT_SUPPORTED, found |-> FALSE, value |-> << >>]
    ELSE [code  |-> NOMAD_OK,
          found |-> EngineFind(db.root, key).found,
          value |-> EngineFind(db.root, key).value]

\* nomad_db_find_from_root(db, root, key, key_len, version, &node); threw
\* says that the lookup or the allocation of the node handle threw.
NomadDbFindFromRoot(db, key, threw) ==
    IF threw
    THEN [code |-> NOMAD_ERR_INTERNAL, found |-> FALSE, value |-> << >>]
    ELSE [code  |-> NOMAD_OK,
          found |-> EngineFind(db.root, key).found,
          value |-> EngineFind(db.root, key).value]

\* One more call in the log of the DB; open says db.ptr was not nil.
GoDbLogged(g, call, key, err, found, value) ==
    [g EXCEPT !.log = Append(@, [call |-> call, key |-> key, open |-> g.ptr,
                                 err |-> err, found |-> found,
                                 value |-> value])]

\* What a Go lookup returns for the result r of its C call.
GoNodeOf(g, call, key, r) ==
    IF CodeToError(r.code) # "nil"
    THEN GoDbLogged(g, call, key, CodeToError(r.code), FALSE, << >>)
    ELSE GoDbLogged(g, call, key, "nil", r.found, r.value)

\* db.Find(key, version)
GoFind(key) ==
    /\ Len(gdb.log) < MaxGoCalls
    /\ gdb' = IF ~gdb.ptr
              THEN GoDbLogged(gdb, "Find", key, "ErrNullPointer", FALSE, << >>)
              ELSE GoNodeOf(gdb, "Find", key, NomadDbFind(gdb, key))
    /\ UNCHANGED << bridgeVars, gfifo >>

\* db.FindFromRoot(root, key, version) with the root the last write returned.
GoFindFromRoot(key) ==
    /\ Len(gdb.log) < MaxGoCalls
    /\ \E threw \in BOOLEAN :
          gdb' = IF ~gdb.ptr \/ ~gdb.has_root
                 THEN GoDbLogged(gdb, "FindFromRoot", key, "ErrNullPointer",
                                 FALSE, << >>)
                 ELSE GoNodeOf(gdb, "FindFromRoot", key,
                               NomadDbFindFromRoot(gdb, key, threw))
    /\ UNCHANGED << bridgeVars, gfifo >>

\* db.Put(root, key, value, version) with the root the last write returned
\* (nil before the first write): Upsert, nomad_db_upsert; threw says that
\* the engine or an allocation threw.
GoPut(key, value) ==
    /\ Len(gdb.log) < MaxGoCalls
    /\ \E threw \in BOOLEAN :
          gdb' = IF ~gdb.ptr
                 THEN GoDbLogged(gdb, "Put", key, "ErrNullPointer", FALSE,
                                 << >>)
                 ELSE IF threw
                 THEN GoDbLogged(gdb, "Put", key,
                                 CodeToError(NOMAD_ERR_INTERNAL), FALSE, << >>)
                 ELSE [GoDbLogged(gdb, "Put", key, "nil", TRUE, value)
                          EXCEPT !.has_root = TRUE,
                                 !.root = EngineUpsert(gdb.root, key, value)]
    /\ UNCHANGED << bridgeVars, gfifo >>

\* db.Close(): nomad_db_close, db.ptr = nil.
GoClose ==
    /\ Len(gdb.log) < MaxGoCalls
    /\ gdb' = [GoDbLogged(gdb, "Close", << >>, "nil", FALSE, << >>)
                 EXCEPT !.ptr = FALSE]
    /\ UNCHANGED << bridgeVars, gfifo >>

\* The Go binding's DB in memory: writes and lookups in any order.
GoDbNext ==
    \/ GoOpenMemory
    \/ \E key \in GoKeys : GoFind(key)
    \/ \E key \in GoKeys : GoFindFromRoot(key)
    \/ \E key \in GoKeys, value \in GoValues : GoPut(key, value)
    \/ GoClose

GoDbSpec == Init /\ [][GoDbNext]_vars

\* ------------------------------------------------------ the specifications
\* Two threads call start() on a manager that has never run.
RaceNext ==
    \E t \in Callers :
       \/ \E n \in 0..MaxWorkers : StartRead(t, n)
       \/ StartSetWorkers(t)
       \/ StartStore(t)
       \/ StartMakePool(t)
       \/ StartAssignPool(t)
       \/ StartSubmit(t)

RaceSpec == InitWith(0) /\ [][RaceNext]_vars

\* The first start() of a run.
FirstStart(n) == hist = << >> /\ StartCall(n)

\* Two threads call stop() on a manager that start() has started; its
\* workers find an empty Request queue or the Shutdown requests.
StopRaceNext ==
    \/ \E n \in 0..MaxWorkers : FirstStart(n)
    \/ StartSpawn
    \/ \E t \in Callers : StopExchangeBy(t)
    \/ \E t \in Callers : StopEnqueueBy(t)
    \/ \E t \in Callers : StopJoinBy(t)
    \/ \E w \in Workers : WCheck(w)
    \/ \E w \in Workers : WDequeue(w)

StopRaceSpec == Init /\ [][StopRaceNext]_vars

\* The requests of the lifecycle runs: a find, a traversal (of B alone), a
\* Shutdown sent by a caller, a request left zero-initialised.
LifeMenu ==
    { Req(REQ_FIND_VALUE, <<18>>, DataVersion, 0),
      Req(REQ_TRAVERSE, <<120>>, DataVersion, 0),
      Req(REQ_SHUTDOWN, << >>, 0, 0),
      Req(0, << >>, 0, 0) }

WorkerLoop ==
    \/ \E w \in Workers : WCheck(w)
    \/ \E w \in Workers : WDequeue(w)
    \/ \E w \in Workers : WTrieYield(w)

WorkerFind ==
    \/ \E w \in Workers : WFind(w)
    \/ \E w \in Workers : WPost(w)

WorkerTraverse ==
    \/ \E w \in Workers : WTravStart(w)
    \/ \E w \in Workers : WTravNode(w)
    \/ \E w \in Workers : WTravEnd(w)

\* The batches of finds a caller submits: every size from 2 that MaxReq allows.
Batches(menu) == UNION { [1..k -> menu] : k \in 2..MaxReq }

\* Lookups on a started pool: any find, any allocation failure, any poll.
FindNext ==
    \/ \E n \in 0..MaxWorkers : FirstStart(n)
    \/ StartSpawn
    \/ \E m \in FindMenu \cup NodeMenu : Submit(m)
    \/ \E ms \in Batches(FindMenu) :
          \E oks \in [1..Len(ms) -> BOOLEAN] : SubmitBatch(ms, oks)
    \/ PollCompletion
    \/ PollLargeValue
    \/ WorkerLoop
    \/ WorkerFind

FindSpec == Init /\ [][FindNext]_vars

\* Traversals on a started pool.
TravNext ==
    \/ \E n \in 0..MaxWorkers : FirstStart(n)
    \/ StartSpawn
    \/ \E m \in TraverseMenu : Submit(m)
    \/ PollTraverse
    \/ PollLargeValue
    \/ WorkerLoop
    \/ WorkerTraverse

TravSpec == Init /\ [][TravNext]_vars

\* The start/stop protocol with work in flight.
LifeNext ==
    \/ \E n \in 0..MaxWorkers : StartCall(n)
    \/ StartSpawn
    \/ StopCall
    \/ StopEnqueue
    \/ StopJoin
    \/ \E m \in LifeMenu : Submit(m)
    \/ WorkerLoop
    \/ \E w \in Workers : WFind(w)
    \/ WorkerTraverse

LifeSpec == Init /\ [][LifeNext]_vars

\* What a fiber does when the pool's thread runs it.
Progress(w) ==
    \/ WCheck(w)
    \/ WDequeue(w)
    \/ WFind(w)
    \/ WPost(w)
    \/ WTravStart(w)
    \/ WTravNode(w)
    \/ WTravEnd(w)

\* The pool's scheduler runs every ready fiber again and again; a thread
\* that is inside start() or stop() goes on; the caller keeps polling.
FiberFairness == \A w \in Workers : SF_vars(Progress(w))

\* FindValue requests on a started pool that is never stopped, with no
\* allocation failure, under fair scheduling and a caller that keeps polling.
FindLiveNext ==
    \/ \E n \in 0..MaxWorkers : FirstStart(n)
    \/ StartSpawn
    \/ \E m \in FindMenu : Submit(m)
    \/ \E ms \in Batches(FindMenu) :
          \E oks \in [1..Len(ms) -> BOOLEAN] : SubmitBatch(ms, oks)
    \/ PollCompletion
    \/ PollLargeValue
    \/ WorkerLoop
    \/ WorkerFind

FindLiveSpec ==
    /\ InitWith(0)
    /\ [][FindLiveNext]_vars
    /\ WF_vars(StartSpawn)
    /\ WF_vars(PollCompletion)
    /\ FiberFairness

\* The start/stop protocol under fair scheduling: the thread in stop() goes
\* on, allocations may fail.
StopLiveMenu ==
    { Req(REQ_FIND_VALUE, <<18>>, DataVersion, 0),
      Req(REQ_TRAVERSE, <<120>>, DataVersion, 0) }

StopLiveNext ==
    \/ \E n \in 0..MaxWorkers : StartCall(n)
    \/ StartSpawn
    \/ StopCall
    \/ StopEnqueue
    \/ StopJoin
    \/ \E m \in StopLiveMenu : Submit(m)
    \/ WorkerLoop
    \/ \E w \in Workers : WFind(w)
    \/ WorkerTraverse

StopLiveSpec ==
    /\ Init
    /\ [][StopLiveNext]_vars
    /\ WF_vars(StartSpawn)
    /\ WF_vars(StopEnqueue)
    /\ WF_vars(StopJoin)
    /\ FiberFairness

\* The start/stop protocol under fair scheduling when no allocation fails.
RestartLiveSpec ==
    /\ InitWith(0)
    /\ [][StopLiveNext]_vars
    /\ WF_vars(StartSpawn)
    /\ WF_vars(StopEnqueue)
    /\ WF_vars(StopJoin)
    /\ FiberFairness

\* Construction to destruction: any start/stop calls, lookups in flight or
\* left in the queues, then the destructor.
DtorMenu ==
    { Req(REQ_FIND_VALUE, <<18>>, DataVersion, 0),
      Req(REQ_FIND_VALUE, <<18, 86>>, DataVersion, 0) }

DtorNext ==
    \/ \E n \in 0..MaxWorkers : StartCall(n)
    \/ StartSpawn
    \/ StopCall
    \/ StopEnqueue
    \/ StopJoin
    \/ DtorCall
    \/ DtorQueues
    \/ \E m \in DtorMenu : Submit(m)
    \/ WorkerLoop
    \/ WorkerFind

DtorSpec == Init /\ [][DtorNext]_vars

\* Lookups and traversals together on a started pool that is never stopped:
\* allocations may fail, the trie may fail, the fibers are scheduled fairly.
MixMenu ==
    { Req(REQ_FIND_VALUE, <<18, 86>>, DataVersion, 0),
      Req(REQ_FIND_NODE, <<18>>, DataVersion, 0),
      Req(REQ_TRAVERSE, <<18, 86>>, DataVersion, 0) }

MixNext ==
    \/ \E n \in 0..MaxWorkers : FirstStart(n)
    \/ StartSpawn
    \/ \E m \in MixMenu : Submit(m)
    \/ PollCompletion
    \/ PollTraverse
    \/ PollLargeValue
    \/ WorkerLoop
    \/ WorkerFind
    \/ WorkerTraverse

MixLiveSpec ==
    /\ Init
    /\ [][MixNext]_vars
    /\ WF_vars(StartSpawn)
    /\ FiberFairness

\* Values of every size class, by lookup and by traversal: no key, a value
\* of exactly the inline capacity, a value one byte over it, the subtree of
\* A (2, 256 and 257 bytes).
ValueLenMenu ==
    { Req(REQ_FIND_VALUE, <<153>>, DataVersion, 0),
      Req(REQ_FIND_VALUE, <<18, 52>>, DataVersion, 0),
      Req(REQ_FIND_VALUE, <<18, 86>>, DataVersion, 0),
      Req(REQ_TRAVERSE, <<18>>, DataVersion, 0) }

ValueLenNext ==
    \/ \E n \in 0..MaxWorkers : FirstStart(n)
    \/ StartSpawn
    \/ \E m \in ValueLenMenu : Submit(m)
    \/ WorkerLoop
    \/ WorkerFind
    \/ WorkerTraverse

ValueLenSpec == Init /\ [][ValueLenNext]_vars

\* Lookups submitted in batches only, of every size from 1 that MaxReq
\* allows; any entry allocation of a batch may fail.
BatchMenu ==
    { Req(REQ_FIND_VALUE, <<18>>, DataVersion, 0),
      Req(REQ_FIND_VALUE, <<18, 86>>, DataVersion, 0),
      Req(REQ_FIND_NODE, <<18>>, DataVersion, 0) }

BatchNext ==
    \/ \E n \in 0..MaxWorkers : FirstStart(n)
    \/ StartSpawn
    \/ \E k \in 1..MaxReq :
          \E ms \in [1..k -> BatchMenu], oks \in [1..k -> BOOLEAN] :
             SubmitBatch(ms, oks)
    \/ PollCompletion
    \/ WorkerLoop
    \/ WorkerFind

BatchSpec == Init /\ [][BatchNext]_vars

\* Batches allocated by alloc_request_batch and then submitted, of every
\* size that MaxReq allows; any allocation may fail.
AllocBatchNext ==
    \/ \E count \in 1..MaxReq : \E oks \in [1..count -> BOOLEAN] :
          AllocRequestBatch(count, oks)
    \/ \E count \in 1..MaxReq :
          \E ms \in [1..count -> BatchMenu], eoks \in [1..count -> BOOLEAN] :
             SubmitAllocated(ms, eoks)
    \/ \E n \in 0..MaxWorkers : FirstStart(n)
    \/ StartSpawn
    \/ WorkerLoop
    \/ WorkerFind

AllocBatchSpec == Init /\ [][AllocBatchNext]_vars

\* Lookups and a traversal whose answers are polled in batches only, with
\* every max_count up to MaxPoll; no allocation fails.
PollBatchMenu ==
    { Req(REQ_FIND_VALUE, <<18, 86>>, DataVersion, 0),
      Req(REQ_TRAVERSE, <<18>>, DataVersion, 2) }

PollBatchNext ==
    \/ \E n \in 0..MaxWorkers : FirstStart(n)
    \/ StartSpawn
    \/ \E m \in PollBatchMenu : Submit(m)
    \/ \E max_count \in 0..MaxPoll : PollCompletionBatch(max_count)
    \/ \E max_count \in 0..MaxPoll : PollTraverseBatch(max_count)
    \/ WorkerLoop
    \/ WorkerFind
    \/ WorkerTraverse

PollBatchSpec == InitWith(0) /\ [][PollBatchNext]_vars

\* The path packing of send_node on its own: every path_ of up to
\* MaxPathLen nibbles that runs first, first + step, ... (mod 16), the
\* paths of one repeated nibble (step 0) among them.
PackInputs ==
    { [i \in 1..n |-> (first + step * (i - 1)) % 16] :
         n \in 0..MaxPathLen, first \in 0..15, step \in {0, 1, 7} }

PackInit == \E path \in PackInputs : InitFrom(0, path)

\* send_node(): the lines that fill comp.merkle_hash from path_.
PackSend ==
    /\ pout = << >>
    /\ pout' = PackPath(pin)
    /\ UNCHANGED << lifeVars, workerVars, queueVars, pollVars, faults, dropped,
                    callerVars, trieFaults, done, ownVars, dtorVars, pin, tm, fq,
                    goVars, raceVars, stopVars, allocVars >>

PackNext == PackSend

\* What the calls on one queue leave alone.
fqRest == << lifeVars, workerVars, queueVars, pollVars, faults, dropped,
            callerVars, trieFaults, done, ownVars, dtorVars, pin, pout, tm,
            goVars, raceVars, stopVars, allocVars >>

\* The payloads handed to the queue.
FqPayloads == {1, 2}

\* submit(), post_completion(), ...: ck_fifo_mpmc_wrapper_alloc_entry(),
\* then ck_fifo_mpmc_wrapper_enqueue; nothing is enqueued when the
\* allocation fails.
FqEnqueue(v) ==
    /\ fq.next <= MaxEntries
    /\ \E ok \in BOOLEAN :
          fq' = IF ok
                THEN [fq EXCEPT !.alloc = @ \cup {fq.next},
                                !.chain = CkEnqueue(@, fq.next),
                                !.vals = Append(@, v),
                                !.next = @ + 1]
                ELSE [fq EXCEPT !.next = @ + 1]
    /\ UNCHANGED fqRest

\* poll_completion(), worker_fiber(), ...: ck_fifo_mpmc_wrapper_dequeue
\* returns a value; the caller holds it and the garbage entry.  (From an
\* empty queue it returns NULL and no garbage: nothing changes.)
FqDequeue ==
    /\ fq.garbage = {}
    /\ fq.vals # << >>
    /\ fq' = [fq EXCEPT !.chain = CkDequeue(@),
                        !.vals = Tail(@),
                        !.out = Append(@, Head(fq.vals)),
                        !.garbage = {CkGarbage(fq.chain)}]
    /\ UNCHANGED fqRest

\* if (garbage) ck_fifo_mpmc_wrapper_free_entry(garbage);
FqFreeGarbage ==
    /\ fq.garbage # {}
    /\ fq' = [fq EXCEPT !.alloc = @ \ fq.garbage,
                        !.freed = @ \cup fq.garbage,
                        !.garbage = {}]
    /\ UNCHANGED fqRest

FqNext ==
    \/ \E v \in FqPayloads : FqEnqueue(v)
    \/ FqDequeue
    \/ FqFreeGarbage

FqSpec == InitWith(0) /\ [][FqNext]_vars

\* What the calls on a traverse machine on its own leave alone.
tmRest == << lifeVars, workerVars, queueVars, pollVars, faults, dropped,
            callerVars, trieFaults, done, ownVars, dtorVars, pin, pout, fq,
            goVars, raceVars, stopVars, allocVars >>

\* The request prefixes the machine is constructed with, the branches and
\* the path segments of the nodes the walk hands to down().
TmPrefixes == { << >>, <<1, 2>>, <<15>> }
TmBranches == {0, 7, 15}
TmNodePaths == { << >>, <<4>>, <<6, 6>> }

TmInit == \E prefix \in TmPrefixes : InitFrom(0, prefix)

\* Db::traverse calls down(branch, node): INVALID_BRANCH for the node the
\* traversal starts at, the child's branch nibble below it.
TmDown(branch, npath) ==
    /\ Len(tm.open) < MaxDepth
    /\ tm.ups = 0 \/ tm.open # << >>
    /\ (branch = INVALID_BRANCH) <=> (tm.open = << >>)
    /\ LET p1 == Down(branch, [path |-> npath], tm.path_)
       IN tm' = [tm EXCEPT
                   !.path_ = p1,
                   !.open = Append(@, [branch |-> branch, npath |-> npath,
                                       before |-> tm.path_, after |-> p1])]
    /\ UNCHANGED tmRest

\* Db::traverse calls up(branch, node) for the node it entered last.
TmUp ==
    /\ tm.open # << >>
    /\ LET f  == tm.open[Len(tm.open)]
           p1 == Up(f.branch, [path |-> f.npath], tm.path_)
       IN tm' = [tm EXCEPT
                   !.path_ = p1,
                   !.open = SubSeq(@, 1, Len(@) - 1),
                   !.ups = 1,
                   !.last = [branch |-> f.branch, before |-> f.before,
                             after |-> p1]]
    /\ UNCHANGED tmRest

TmNext ==
    \/ \E npath \in TmNodePaths :
          \E branch \in TmBranches \cup {INVALID_BRANCH} :
             TmDown(branch, npath)
    \/ TmUp

TmSpec == TmInit /\ [][TmNext]_vars

PackSpec == PackInit /\ [][PackNext]_vars

\* ------------------------------------------------------------ the claims
\* Everything a queue has ever held, in enqueue order.
AllC == polledC \o completionQ
AllT == polledT \o traverseQ
AllL == polledL \o largeQ

SameId(x, r) == x.lo = r.lo /\ x.hi = r.hi

\* The positions of seq that hold a record with r's correlation id.
Of(seq, r) == { j \in 1..Len(seq) : SameId(seq[j], r) }

\* The trie answered r's lookup: it neither returned an error nor threw.
Answered(r) == \A f \in Faults : << r.lo, f >> \notin trieFaults

\* The node r's key resolves to holds a value; its bytes.
HoldsValue(r) ==
    /\ DbFind(r.key, r.version) # "none"
    /\ Trie[DbFind(r.key, r.version)].has_value
Stored(r) == Trie[DbFind(r.key, r.version)].value

Lost(r, kind) == << r.lo, kind, "" >> \in dropped

\* C1 -- With workers running, no allocation failure and no stop(), the
\* FindValue requests submitted (singly or in a batch) with distinct ids are
\* each answered by exactly one polled Completion, and no polled Completion
\* carries an id that was not submitted.
C1_NoStrayCompletion ==
    /\ \A j \in 1..Len(polledC) :
          \E i \in 1..Len(submitted) : SameId(polledC[j], submitted[i])
    /\ \A i \in 1..Len(submitted) : Cardinality(Of(polledC, submitted[i])) <= 1
C1_AllAnswered ==
    /\ Len(polledC) = Len(submitted)
    /\ \A i \in 1..Len(submitted) : Cardinality(Of(polledC, submitted[i])) = 1
C1_FindsAnsweredOnce ==
    /\ [] C1_NoStrayCompletion
    /\ [] ((pool /\ running) => <> C1_AllAnswered)
C1_Witness ==
    /\ pool /\ running
    /\ Len(submitted) = MaxReq
    /\ C1_AllAnswered

\* C2 -- A finished FindValue whose key resolves to a value of S <= 256 bytes
\* has exactly one Completion, with status Ok, value_len = S and the stored
\* bytes inline, and no LargeValue.
C2_InlineCase(r) ==
    /\ r.type = REQ_FIND_VALUE
    /\ Answered(r)
    /\ HoldsValue(r)
    /\ Len(Stored(r)) <= 256
C2_InlineResult(r) ==
    /\ Cardinality(Of(AllC, r)) = 1
    /\ \A j \in Of(AllC, r) :
          /\ AllC[j].status = STATUS_OK
          /\ AllC[j].value_len = << 0, Len(Stored(r)) >>
          /\ SubSeq(AllC[j].value, 1, Len(Stored(r))) = Stored(r)
    /\ Of(AllL, r) = {}
\* As claimed: in every case.
C2_Claimed == \A r \in done : C2_InlineCase(r) => C2_InlineResult(r)
\* As amended: unless an allocation of post_completion failed, and then
\* there is no Completion and no LargeValue.
C2_InlineRoundTrip ==
    \A r \in done :
        C2_InlineCase(r) =>
            IF Lost(r, "completion")
            THEN Of(AllC, r) = {} /\ Of(AllL, r) = {}
            ELSE C2_InlineResult(r)
C2_Witness ==
    \E r \in done :
        /\ C2_InlineCase(r)
        /\ Len(Stored(r)) = 256
        /\ C2_InlineResult(r)

\* C3 -- A finished FindValue whose key resolves to a value of S > 256 bytes
\* has exactly one Completion, with status Ok and the sentinel value_len, and
\* exactly one LargeValue with its id, len = S and the stored bytes.
C3_LargeCase(r) ==
    /\ r.type = REQ_FIND_VALUE
    /\ Answered(r)
    /\ HoldsValue(r)
    /\ Len(Stored(r)) > 256
C3_SentinelCompletion(r) ==
    /\ Cardinality(Of(AllC, r)) = 1
    /\ \A j \in Of(AllC, r) :
          AllC[j].status = STATUS_OK /\ AllC[j].value_len = << 65535, 65535 >>
C3_OneLargeValue(r) ==
    /\ Cardinality(Of(AllL, r)) = 1
    /\ \A j \in Of(AllL, r) :
          AllL[j].len = << 0, Len(Stored(r)) >> /\ AllL[j].data = Stored(r)
C4_Ends(r) ==
    { j \in Of(AllT, r) : AllT[j].status = STATUS_TRAVERSE_END }
C4_OneEnd(r) ==
    /\ Cardinality(C4_Ends(r)) = 1
    /\ \A j \in C4_Ends(r) : AllT[j].value_len = << 0, 0 >>
    /\ \A j \in Of(AllC, r) : AllC[j].status # STATUS_TRAVERSE_END
\* As claimed: in every case.
C4_Claimed == \A r \in done : r.type = REQ_TRAVERSE => C4_OneEnd(r)
\* As amended: unless an allocation of the post_traverse of the TraverseEnd
\* failed, and then there is none.
C4_OneTraverseEnd ==
    \A r \in done :
        r.type = REQ_TRAVERSE =>
            IF Lost(r, "end") THEN C4_Ends(r) = {} ELSE C4_OneEnd(r)
C4_Witness ==
    /\ \E r \in done :
          /\ r.type = REQ_TRAVERSE
          /\ << r.lo, "throw" >> \in trieFaults
          /\ C4_OneEnd(r)
    /\ \E r \in done :
          /\ r.type = REQ_TRAVERSE
          /\ Answered(r)
          /\ DbFind(r.key, r.version) = "none"
          /\ Of(AllT, r) = C4_Ends(r)
          /\ C4_OneEnd(r)

\* C5 -- On the Traverse queue no TraverseMore of a request comes after the
\* TraverseEnd of that request.
C5_MoreBeforeEnd ==
    \A i, j \in 1..Len(AllT) :
        (i < j /\ SameId(AllT[i], AllT[j])
               /\ AllT[i].status = STATUS_TRAVERSE_END)
            => AllT[j].status # STATUS_TRAVERSE_MORE
C5_Witness ==
    \E i, j, k \in 1..Len(polledT) :
        /\ i < j /\ j < k
        /\ SameId(polledT[i], polledT[j]) /\ SameId(polledT[j], polledT[k])
        /\ polledT[i].status = STATUS_TRAVERSE_MORE
        /\ polledT[j].status = STATUS_TRAVERSE_MORE
        /\ polledT[k].status = STATUS_TRAVERSE_END

\* C6 -- The TraverseMore completions of a Traverse request are never more
\* than its limit: traverse_limit when that is > 0, and 4096 when it is 0.
C6_Mores(r) ==
    { j \in Of(AllT, r) : AllT[j].status = STATUS_TRAVERSE_MORE }
C7_StopReturns ==
    (ctl \in {"enq", "join"}) ~>
        (ctl = "idle" /\ ~pool /\ \A w \in Workers : wpc[w] = "none")
C7_Witness ==
    /\ ctl = "idle" /\ ~pool /\ ~running
    /\ hist # << >> /\ hist[Len(hist)] = "stop"
    /\ sent = 0 /\ lost = MaxWorkers

\* C8 -- stop() on a running pool of n workers: running is false from its
\* first step on; the loop makes n iterations, each enqueuing one Shutdown
\* request unless its allocation fails; stop() returns only when every
\* worker has finished, and leaves the pool released.
C8_StopInOrder ==
    [][ /\ (ctl = "idle" /\ ctl' \in {"enq", "join"}) => (running /\ ~running')
        /\ (ctl' \in {"enq", "join"}) => ~running'
        /\ (ctl = "enq" /\ stop_i' = stop_i + 1) =>
              \/ requestQ' = Append(requestQ, ShutdownReq) /\ faults' = faults
              \/ requestQ' = requestQ /\ faults' = faults - 1
        /\ (ctl # "join" /\ ctl' = "join") =>
              /\ sent' + lost' = num_workers
              /\ num_workers >= 1
        /\ (ctl = "join" /\ ctl' = "idle") =>
              /\ \A w \in Workers : wpc[w] \in {"none", "term"}
              /\ \E w \in Workers : wpc[w] = "term"
              /\ ~pool' /\ ~running' ]_vars
C8_Witness ==
    /\ ctl = "idle" /\ ~pool /\ ~running
    /\ hist # << >> /\ hist[Len(hist)] = "stop"
    /\ sent = MaxWorkers /\ lost = 0

\* C9 -- A stop() called after a stop() has returned returns at once and
\* changes nothing: running stays false, nothing is enqueued, no queue and no
\* worker changes.
C9_StopAfterStop(h, h2) ==
    /\ h # << >> /\ h[Len(h)] = "stop"
    /\ h2 = Append(h, "stop")
C9_SecondStopChangesNothing ==
    [][ C9_StopAfterStop(hist, hist') =>
           /\ ~running /\ ~running'
           /\ ctl' = "idle"
           /\ UNCHANGED << num_workers, pool, workerVars, queueVars,
                           pollVars >> ]_vars
C9_Witness ==
    /\ Len(hist) = 3
    /\ hist = << "start", "stop", "stop" >>
    /\ requestQ # << >>

\* C10 -- start(m) on a running pool returns at once and changes nothing:
\* running stays true, the worker count and the pool stay as they are.
C10_StartWhileRunningChangesNothing ==
    [][ (running /\ hist' = Append(hist, "start")) =>
           /\ running'
           /\ ctl' = "idle"
           /\ UNCHANGED << num_workers, pool, workerVars, queueVars,
                           pollVars >> ]_vars
C10_Witness ==
    /\ Len(hist) >= 2
    /\ hist[1] = "start" /\ hist[2] = "start"
    /\ running /\ pool /\ ctl = "idle"
    /\ num_workers = MaxWorkers
    /\ \E w \in Workers : wpc[w] = "find"

\* C11 -- start() sets running before it spawns: while the fibers are being
\* submitted running is true, and a fiber leaves the loop on the flag only
\* when the flag is false because a stop() came after the last start().
C11_EndsOnFlag(w) == wpc[w] = "loop" /\ wpc'[w] = "term"
C11_NoStaleFlag ==
    /\ [] (ctl = "spawn" => running)
    /\ [][ \A w \in Workers :
              C11_EndsOnFlag(w) =>
                 /\ ~running
                 /\ hist # << >>
                 /\ hist[Len(hist)] = "stop" ]_vars
C11_Witness ==
    /\ hist = << "start", "stop", "start" >>
    /\ pool /\ running /\ ctl = "idle"
    /\ \A w \in Workers : wpc[w] = "deq" \/ (wpc[w] = "loop" /\ cur # w)
    /\ \E w \in Workers : wpc[w] = "deq"

\* C12 -- Once ~FifoManager() has returned the workers are gone and nothing
\* that was in a queue is still allocated: no link entry, no Request, no
\* Completion, no LargeValue.
C12_Claimed ==
    dtor = "done" =>
        /\ ~pool /\ ~running
        /\ \A w \in Workers : wpc[w] = "none"
        /\ leaked = NoResidue

\* C13 -- When start() was never called, a stop() (called directly or by
\* the destructor) returns at once: it enqueues no Shutdown request, waits
\* for no worker, leaves running false and leaves every queue as it is.
C13_NeverStarted(h) == \A i \in 1..Len(h) : h[i] # "start"
C13_StopWithoutStartChangesNothing ==
    [][ (C13_NeverStarted(hist) /\ hist' = Append(hist, "stop")) =>
           /\ ~running /\ ~running'
           /\ ctl = "idle" /\ ctl' = "idle"
           /\ ~pool'
           /\ UNCHANGED << queueVars, workerVars, num_workers, sent, lost,
                           stop_i >> ]_vars
C13_Witness ==
    /\ dtor = "done"
    /\ hist = << "stop", "stop" >>
    /\ leaked.request # << >>

\* C14 -- A finished FindValue or FindNode request has exactly one
\* Completion on the Completion queue, whose status follows the lookup:
\* NotFound for a key absent at that version, NotFound for a node without a
\* value, Ok for a node with a value, Error when the trie returned an error or
\* threw; and no worker has ended because of it.
C14_IsFind(r) == r.type \in {REQ_FIND_VALUE, REQ_FIND_NODE}
C14_Expected(r) ==
    IF ~Answered(r) THEN STATUS_ERROR
    ELSE IF DbFind(r.key, r.version) = "none" THEN STATUS_NOT_FOUND
    ELSE IF ~Trie[DbFind(r.key, r.version)].has_value THEN STATUS_NOT_FOUND
    ELSE STATUS_OK
C14_OneWithStatus(r) ==
    /\ Cardinality(Of(AllC, r)) = 1
    /\ \A j \in Of(AllC, r) : AllC[j].status = C14_Expected(r)
    /\ Of(AllT, r) = {}
\* As claimed: in every case.
C14_Claimed == \A r \in done : C14_IsFind(r) => C14_OneWithStatus(r)
\* As amended: unless an allocation of post_completion failed, and then
\* there is no Completion.
C14_StatusFollowsLookup ==
    /\ \A r \in done :
          C14_IsFind(r) =>
             IF Lost(r, "completion") THEN Of(AllC, r) = {}
             ELSE C14_OneWithStatus(r)
    /\ \A w \in Workers : wpc[w] # "term"
C14_Witness ==
    \E r1, r2 \in done :
        /\ C14_IsFind(r1) /\ << r1.lo, "throw" >> \in trieFaults
        /\ C14_OneWithStatus(r1)
        /\ C14_IsFind(r2) /\ Answered(r2)
        /\ DbFind(r2.key, r2.version) = "root"
        /\ C14_OneWithStatus(r2)
        /\ \E w \in Workers : wpc[w] = "deq"

\* C15 -- The 32-byte hash field of a Completion of a find holds the node's
\* data when the request is a FindNode that found a value-bearing node whose
\* data is 32 bytes long, and is all zero otherwise.
C15_HashOf(r, status) ==
    IF /\ r.type = REQ_FIND_NODE
       /\ status = STATUS_OK
       /\ Len(Trie[DbFind(r.key, r.version)].data) = 32
    THEN Trie[DbFind(r.key, r.version)].data
    ELSE [i \in 1..32 |-> 0]
C15_HashOnlyFor32ByteNodeData ==
    \A i \in 1..Len(submitted) :
        \A j \in Of(AllC, submitted[i]) :
            AllC[j].merkle_hash = C15_HashOf(submitted[i], AllC[j].status)
C15_Witness ==
    \E j, k \in 1..Len(AllC) :
        /\ AllC[j].status = STATUS_OK /\ AllC[k].status = STATUS_OK
        /\ AllC[j].merkle_hash = Trie["A"].data
        /\ AllC[k].merkle_hash = [i \in 1..32 |-> 0]
        /\ \E i \in 1..Len(submitted) :
              /\ SameId(AllC[k], submitted[i])
              /\ submitted[i].type = REQ_FIND_NODE

\* C16 -- Every Completion on the Completion queue or the Traverse queue
\* and every LargeValue carries both words of the correlation id of the
\* request it was produced for: a submitted request of the matching kind,
\* which gets no second answer.
C16_From(x, types) ==
    \E i \in 1..Len(submitted) :
        SameId(x, submitted[i]) /\ submitted[i].type \in types
C16_IdsRoundTrip ==
    /\ \A j \in 1..Len(AllC) :
          C16_From(AllC[j], {REQ_FIND_VALUE, REQ_FIND_NODE})
    /\ \A j \in 1..Len(AllT) : C16_From(AllT[j], {REQ_TRAVERSE})
    /\ \A j \in 1..Len(AllL) :
          /\ C16_From(AllL[j], {REQ_FIND_VALUE, REQ_TRAVERSE})
          /\ AllL[j].data = Trie["D"].value
    /\ \A i \in 1..Len(submitted) :
          /\ Cardinality(Of(AllC, submitted[i])) <= 1
          /\ Cardinality({ j \in Of(AllT, submitted[i]) :
                             AllT[j].status = STATUS_TRAVERSE_END }) <= 1
C16_Witness ==
    /\ Len(AllC) = 1 /\ Len(AllT) = 2 /\ Len(AllL) = 2
    /\ AllL[1].lo # AllL[2].lo
    /\ AllL[1].hi = 100 + AllL[1].lo
    /\ AllL[2].hi = 100 + AllL[2].lo

\* C18 -- No queue hands a payload to two consumers, none loses a payload,
\* and the payloads of one producer come out in the order it enqueued them:
\* the requests dequeued so far followed by those still queued are exactly
\* the requests enqueued, in ascending order of submission, each once; and
\* no completion or large value is polled twice.
C18_Los(q) == [i \in 1..Len(q) |-> q[i].lo]
C18_Ascending(ids) ==
    \A i, j \in 1..Len(ids) : i < j => ids[i] < ids[j]
C19_Posted(r) ==
    CASE r.type \in {REQ_FIND_VALUE, REQ_FIND_NODE} ->
            Of(AllC, r) # {} \/ Lost(r, "completion")
      [] r.type = REQ_TRAVERSE ->
            (\E j \in Of(AllT, r) : AllT[j].status = STATUS_TRAVERSE_END)
               \/ Lost(r, "end")
      [] OTHER -> TRUE
C19_Count(ids, k) == Cardinality({ i \in 1..Len(ids) : ids[i] = k })
C19_FreedOnceByItsWorker ==
    /\ \A k \in 1..MaxReq : C19_Count(taken, k) <= 1 /\ freed[k] <= 1
    /\ \A w, v \in Workers :
          (w # v /\ wreq[w] # NoReq) => wreq[w].lo # wreq[v].lo
    /\ \A w \in Workers :
          wreq[w] # NoReq =>
             /\ freed[wreq[w].lo] = 0
             /\ C19_Count(taken, wreq[w].lo) = 1
             /\ wreq[w] \notin done
    /\ \A r \in done :
          r.lo > 0 =>
             /\ freed[r.lo] = 1
             /\ C19_Count(taken, r.lo) = 1
             /\ C19_Posted(r)
    /\ \A i \in 1..Len(submitted) :
          freed[submitted[i].lo] = 1 => submitted[i] \in done
    /\ freed[0] = C19_Count(taken, 0)
C19_Witness ==
    /\ \E r1, r2 \in done :
          /\ r1.type = REQ_FIND_VALUE /\ freed[r1.lo] = 1
          /\ r2.type = REQ_TRAVERSE /\ freed[r2.lo] = 1
    /\ freed[0] >= 1

\* C20 -- A failed allocation or a fault of the trie costs only the record
\* being built: no worker ends, what a failed submit had allocated is freed,
\* the answers of the other requests stay in the queues, and every request
\* that was enqueued is still processed.
C20_Unharmed(r) ==
    /\ Answered(r)
    /\ \A kind \in {"completion", "end"} : ~Lost(r, kind)
C20_Answer(r) ==
    IF r.type = REQ_TRAVERSE
    THEN { j \in Of(AllT, r) : AllT[j].status = STATUS_TRAVERSE_END }
    ELSE Of(AllC, r)
C20_FailuresStayLocal ==
    /\ \A w \in Workers : wpc[w] # "term"
    /\ \A k \in 1..MaxReq :
          << k, "request", "" >> \in dropped =>
             /\ freed[k] = 1
             /\ \A i \in 1..Len(requestQ) : requestQ[i].lo # k
    /\ \A r \in done : C20_Unharmed(r) => Cardinality(C20_Answer(r)) = 1
C20_AllProcessed == \A i \in 1..Len(submitted) : submitted[i] \in done
C20_FailureIsNotFatal ==
    /\ [] C20_FailuresStayLocal
    /\ [] (pool => <> C20_AllProcessed)
C20_Witness ==
    /\ num_workers = 1
    /\ Len(taken) = 2
    /\ \E r1, r2 \in done :
          /\ r1.lo = taken[1] /\ r2.lo = taken[2]
          /\ << r1.lo, "throw" >> \in trieFaults
          /\ \E kind \in {"completion", "end"} : Lost(r1, kind)
          /\ C20_Unharmed(r2)
          /\ Cardinality(C20_Answer(r2)) = 1
    /\ wpc[1] \in {"loop", "deq"}

\* C17 -- The packing of a path of n nibbles: for n <= 64, byte i/2 holds
\* nibble i in its high half for even i and in its low half for odd i, every
\* other half is zero and no marker is written; for n >= 65 the first 64
\* nibbles are packed so and byte 31 is then overwritten with 0xFF.
C17_Nibble(path, i) == IF i <= Len(path) THEN path[i] ELSE 0
C17_Exact(path, j) ==
    16 * C17_Nibble(path, 2 * j - 1) + C17_Nibble(path, 2 * j)
C17_PathPacking ==
    pout # << >> =>
        /\ Len(pout) = 32
        /\ IF Len(pin) <= 64
           THEN \A j \in 1..32 : pout[j] = C17_Exact(pin, j)
           ELSE /\ \A j \in 1..31 : pout[j] = C17_Exact(pin, j)
                /\ pout[32] = 255
C17_Witness ==
    /\ Len(pin) = 64
    /\ pout # << >>
    /\ pout[32] = 16 * pin[63] + pin[64]
    /\ pout[32] # 255
    /\ pout[1] = 16 * pin[1] + pin[2]

\* C21 -- A Completion that carries the sentinel length is on (or has been
\* polled from) its queue only when the LargeValue with its correlation id is
\* on the LargeValue queue or has been polled from it: post_large_value comes
\* before post_completion in process_find and before post_traverse in
\* send_node.
C21_Sentinels(seq) == { j \in 1..Len(seq) : seq[j].value_len = << 65535, 65535 >> }
C21_HasLarge(x) == \E k \in 1..Len(AllL) : SameId(AllL[k], x)
C21_LargeDropped(x) == \E d \in dropped : d[1] = x.lo /\ d[2] = "large"
C22_Ok(k, drp) == << IdLo(k), "request", "" >> \notin drp
C22_Node(k, sub) ==
    IF \E i \in 1..Len(sub) : sub[i].lo = IdLo(k)
    THEN sub[CHOOSE i \in 1..Len(sub) : sub[i].lo = IdLo(k)]
    ELSE [NoReq EXCEPT !.lo = IdLo(k)]
\* The queue q after submit() for the nodes k .. last, one call after another.
RECURSIVE C22_Singles(_, _, _, _, _)
C22_Singles(q, k, last, sub, drp) ==
    IF k > last THEN q
    ELSE C22_Singles(SubmitEnqueue(q, C22_Node(k, sub), C22_Ok(k, drp)),
                     k + 1, last, sub, drp)
\* The free_request calls of those submit() calls.
RECURSIVE C22_SinglesFree(_, _, _, _, _)
C22_SinglesFree(log, k, last, sub, drp) ==
    IF k > last THEN log
    ELSE C22_SinglesFree(SubmitFree(log, C22_Node(k, sub), C22_Ok(k, drp)),
                         k + 1, last, sub, drp)
C22_BatchIsSubmitsInOrder ==
    [][ nextId' > nextId =>
           /\ \A k \in nextId..(nextId' - 1) :
                 C22_Ok(k, dropped') <=>
                    (\E i \in 1..Len(submitted') : submitted'[i].lo = IdLo(k))
           /\ requestQ' = C22_Singles(requestQ, nextId, nextId' - 1,
                                      submitted', dropped')
           /\ freed' = C22_SinglesFree(freed, nextId, nextId' - 1,
                                       submitted', dropped')
           /\ faults - faults' =
                 Cardinality({ k \in nextId..(nextId' - 1) :
                                 ~C22_Ok(k, dropped') })
           /\ UNCHANGED << completionQ, traverseQ, largeQ, workerVars,
                           lifeVars >> ]_vars
C22_Witness ==
    /\ nextId = MaxReq + 1
    /\ ~C22_Ok(1, dropped) /\ freed[1] = 1
    /\ \A k \in 2..MaxReq : C22_Ok(k, dropped) /\ freed[k] = 0
    /\ Len(submitted) = MaxReq - 1
    /\ requestQ = submitted
    /\ requestQ[1].lo = IdLo(2)

\* C23 -- A batch poll with max_count max returns a count k <= max and
\* writes k payloads: those that k single polls of the queue, one after
\* another, return, in that order; it ends at the first empty dequeue (k <
\* max only when it has emptied the queue), it can always be called and
\* return, and on an empty queue it returns 0 and leaves the queue as it is.
RECURSIVE C23_Singles(_, _)
C23_Singles(q, k) ==
    IF k = 0 THEN [out |-> << >>, rest |-> q]
    ELSE LET one  == MpmcDequeue(q)
             then == C23_Singles(one.rest, k - 1)
         IN [out |-> one.out \o then.out, rest |-> then.rest]
C23_Step(b, q, q2, polled, polled2) ==
    /\ b.count <= b.max
    /\ Len(b.out) = b.count
    /\ b.out = C23_Singles(q, b.count).out
    /\ q2 = C23_Singles(q, b.count).rest
    /\ Len(q) = Len(q2) + b.count
    /\ polled2 = polled \o b.out
    /\ b.count < b.max => q2 = << >>
    /\ q = << >> => (b.count = 0 /\ q2 = q)
C23_BatchPollIsSinglePolls ==
    /\ [] (dtor = "no" =>
              \A m \in 0..MaxPoll :
                 /\ ENABLED PollCompletionBatch(m)
                 /\ ENABLED PollTraverseBatch(m))
    /\ [][ pbatch' # pbatch =>
             /\ pbatch'.queue = "completion" =>
                   /\ C23_Step(pbatch', completionQ, completionQ', polledC,
                               polledC')
                   /\ UNCHANGED << traverseQ, polledT >>
             /\ pbatch'.queue = "traverse" =>
                   /\ C23_Step(pbatch', traverseQ, traverseQ', polledT,
                               polledT')
                   /\ UNCHANGED << completionQ, polledC >>
             /\ UNCHANGED << requestQ, largeQ, workerVars >> ]_vars
C23_Witness ==
    /\ pbatch.queue = "traverse"
    /\ pbatch.max = MaxPoll /\ pbatch.count = MaxPoll
    /\ traverseQ # << >>
    /\ polledT = pbatch.out
    /\ pbatch.out[1].status = STATUS_TRAVERSE_MORE
    /\ Len(polledC) = 1

\* C24 -- The Go binding's Fifo is a stub: IsImplemented() returns false,
\* and whatever Start, Stop, SubmitFind and SubmitTraverse calls were made,
\* Poll, PollTraverse and PollLargeValue return nil (nothing is available).
C24_Polls == {"Poll", "PollTraverse", "PollLargeValue"}
C24_FifoIsStub ==
    \A i \in 1..Len(gfifo.log) :
        /\ gfifo.log[i].call = "IsImplemented" => gfifo.log[i].ret = "false"
        /\ gfifo.log[i].call \in C24_Polls => gfifo.log[i].ret = "nil"
C24_Witness ==
    /\ gfifo.ptr
    /\ \E i, j, k \in 1..Len(gfifo.log) :
          /\ i < j /\ j < k
          /\ gfifo.log[i].call = "Start"
          /\ gfifo.log[j].call = "SubmitFind"
          /\ gfifo.log[k].call = "Poll"
          /\ gfifo.log[k].ret = "nil"

\* C25 -- On an open in-memory database Find(key, version) returns
\* ErrNotSupported and no node, whatever was written before, and changes
\* nothing in the database; FindFromRoot on the root the last write returned
\* finds a key that was written, with the value written last.
C25_Puts(i, key) ==
    { j \in 1..(i - 1) :
         /\ gdb.log[j].call = "Put"
         /\ gdb.log[j].err = "nil"
         /\ gdb.log[j].key = key }
C25_LastPut(i, key) ==
    CHOOSE j \in C25_Puts(i, key) : \A k \in C25_Puts(i, key) : k <= j
C25_FindAnswers ==
    \A i \in 1..Len(gdb.log) :
        /\ (gdb.log[i].call = "Find" /\ gdb.log[i].open) =>
              gdb.log[i].err = "ErrNotSupported" /\ ~gdb.log[i].found
        /\ (gdb.log[i].call = "FindFromRoot" /\ gdb.log[i].err = "nil"
                /\ C25_Puts(i, gdb.log[i].key) # {}) =>
              /\ gdb.log[i].found
              /\ gdb.log[i].value =
                    gdb.log[C25_LastPut(i, gdb.log[i].key)].value
C25_FindChangesNothing ==
    (/\ Len(gdb'.log) = Len(gdb.log) + 1
     /\ gdb'.log[Len(gdb'.log)].call = "Find") =>
        /\ gdb'.root = gdb.root
        /\ gdb'.has_root = gdb.has_root
        /\ gdb'.ptr = gdb.ptr
        /\ gdb'.is_on_disk = gdb.is_on_disk
        /\ SubSeq(gdb'.log, 1, Len(gdb.log)) = gdb.log
C25_FindNotSupportedInMemory ==
    /\ [] C25_FindAnswers
    /\ [][C25_FindChangesNothing]_vars
C25_Witness ==
    /\ gdb.ptr /\ ~gdb.is_on_disk
    /\ \E i, j, k \in 1..Len(gdb.log) :
          /\ i < j /\ j < k
          /\ gdb.log[i].call = "Put" /\ gdb.log[i].err = "nil"
          /\ gdb.log[j].call = "Find" /\ gdb.log[j].key = gdb.log[i].key
          /\ gdb.log[j].err = "ErrNotSupported"
          /\ gdb.log[k].call = "FindFromRoot"
          /\ gdb.log[k].key = gdb.log[i].key
          /\ gdb.log[k].found /\ gdb.log[k].value = gdb.log[i].value

\* C26 -- After a stop() has returned, once a later start(n) has returned
\* and until the next stop(), n workers are live and every Find request in
\* the Request queue is eventually answered on the Completion queue: the
\* Shutdown requests the earlier stop() left in the queue end no worker of
\* the new pool.
C26_Restarted ==
    /\ running /\ pool /\ ctl = "idle"
    /\ \E i, j \in 1..Len(hist) : i < j /\ hist[i] = "stop" /\ hist[j] = "start"
C26_Live == Cardinality({ w \in Workers : wpc[w] \notin {"none", "term"} })
C26_Queued(k) ==
    \E i \in 1..Len(requestQ) :
        /\ requestQ[i].lo = k
        /\ requestQ[i].type \in {REQ_FIND_VALUE, REQ_FIND_NODE}
C26_Served(k) == \E j \in 1..Len(AllC) : AllC[j].lo = k
C26_Claimed ==
    /\ [] (C26_Restarted => C26_Live = num_workers)
    /\ \A k \in 1..MaxReq :
          (C26_Restarted /\ C26_Queued(k)) ~>
              (C26_Served(k) \/ ~C26_Restarted)

\* C27 -- A worker that finds the Request queue empty yields and goes on
\* from the top of its loop, where it reads the running flag before it
\* dequeues again, and a yielded worker does run again; a worker ends only
\* by dequeuing a Shutdown request or by reading running = false at the top
\* of its loop, never because the queue is empty.
C27_Step(w) ==
    /\ (wpc[w] = "deq" /\ requestQ = << >> /\ wpc'[w] # "deq") =>
          wpc'[w] = "loop" /\ cur' = 0
    /\ (wpc[w] = "loop" /\ wpc'[w] # "loop") =>
          \/ running /\ wpc'[w] = "deq" /\ requestQ' = requestQ
          \/ ~running /\ wpc'[w] = "term"
    /\ (wpc[w] # "term" /\ wpc'[w] = "term") =>
          \/ /\ wpc[w] = "deq"
             /\ requestQ # << >>
             /\ Head(requestQ).type = REQ_SHUTDOWN
          \/ wpc[w] = "loop" /\ ~running
    /\ (wpc[w] \notin {"loop", "deq"} /\ wpc'[w] # wpc[w]) =>
          wpc'[w] \in {"loop", "walk", "post", "none"}
C27_WorkerStateMachine ==
    /\ [][\A w \in Workers : C27_Step(w)]_vars
    /\ \A w \in Workers : (wpc[w] = "loop") ~> (wpc[w] # "loop")
C27_Witness ==
    /\ ctl = "join" /\ ~running
    /\ wpc = [w \in Workers |-> "term"]
    /\ taken = << 0 >>
    /\ requestQ # << >>

\* C28 -- In the packed path of a TraverseMore completion, byte 31 is 0xFF
\* if and only if the node's path had more than 64 nibbles.
C28_Claimed ==
    pout # << >> => (pout[32] = 255 <=> Len(pin) > 64)

\* C29 -- While running is true and no stop() is in progress, the live
\* workers are those start() spawned less one for every Shutdown request a
\* worker has dequeued since, whoever enqueued it: start() leaves as many
\* live workers as it was asked for, and after that a worker ends exactly
\* when a Shutdown request is dequeued.
C29_Serving == running /\ pool /\ ctl = "idle"
C29_Ended == Cardinality({ w \in Workers : wpc[w] = "term" })
\* As claimed: a Shutdown request a caller submits ends no worker.
C29_Claimed == C29_Serving => C26_Live = num_workers
\* As amended.
C29_LiveWorkersLessShutdowns ==
    /\ [] (C29_Serving => C26_Live + C29_Ended = num_workers)
    /\ [][ (ctl = "spawn" /\ ctl' = "idle") =>
              (running' /\ C26_Live' = num_workers') ]_vars
    /\ [][ (C29_Serving /\ C26_Live' # C26_Live) =>
              /\ C26_Live' = C26_Live - 1
              /\ requestQ # << >>
              /\ Head(requestQ).type = REQ_SHUTDOWN
              /\ requestQ' = Tail(requestQ) ]_vars
C29_Witness ==
    /\ C29_Serving
    /\ hist = << "start" >>
    /\ num_workers = MaxWorkers
    /\ C26_Live = MaxWorkers - 1
    /\ \E r \in done : r.type = REQ_SHUTDOWN /\ r.lo > 0
    /\ \E w \in Workers : wpc[w] = "find"

\* C30 -- When two threads call start() at the same time on a stopped
\* manager, workers are spawned at most once: only one of the calls makes
\* a worker pool, and once both calls are over the one pool that exists
\* runs as many workers as that call asked for.
C30_Made == { t \in Callers : pools[t].state # "none" }
C30_Fibers == pools[1].fibers + pools[2].fibers
C30_Claimed ==
    /\ Cardinality(C30_Made) <= 1
    /\ (\A t \in Callers : spc[t] = "done") =>
          /\ Cardinality({ t \in Callers : pools[t].state = "live" }) = 1
          /\ num_workers \in { sarg[t] : t \in C30_Made }
          /\ C30_Fibers = num_workers

\* C31 -- When several threads call stop() at the same time on a running
\* manager, exactly one of them performs the shutdown sequence (the
\* Shutdown requests, the release of the pool), the others return at once;
\* the Request queue receives at most one Shutdown request per worker.
C31_Performing == { t \in Callers : tpc[t] \in {"enq", "join", "done"} }
C31_Shutdowns(q) ==
    Cardinality({ i \in 1..Len(q) : q[i].type = REQ_SHUTDOWN })
C31_OneStopActs ==
    /\ [] (Cardinality(C31_Performing) <= 1)
    /\ [] ((\E t \in Callers : tpc[t] # "idle") =>
              Cardinality(C31_Performing) = 1)
    /\ [] (\A t \in Callers : tpc[t] \in {"idle", "returned"} =>
              ti[t] = 0)
    /\ [][ C31_Shutdowns(requestQ') > C31_Shutdowns(requestQ) =>
              /\ C31_Shutdowns(requestQ') = C31_Shutdowns(requestQ) + 1
              /\ sent' = sent + 1
              /\ sent' + lost' <= num_workers
              /\ num_workers =
                    Cardinality({ w \in Workers : wpc[w] # "none" }) ]_vars
    /\ [][ pool /\ ~pool' =>
              \E t \in C31_Performing : tpc[t] = "join" /\ tpc'[t] = "done"
       ]_vars
C31_Witness ==
    /\ \E t \in Callers : tpc[t] = "done" /\ ti[t] = MaxWorkers
    /\ \E t \in Callers : tpc[t] = "returned"
    /\ sent = MaxWorkers
    /\ ~pool

\* C32 -- A worker that holds a Find or Traverse request when stop() sets
\* running to false finishes it: it leaves the request only by posting the
\* request's last completion and freeing it, goes back to the top of its
\* loop, and does so in the end; running is read at the top of the loop only.
C32_Busy(w) == wpc[w] \in {"find", "post", "trav", "walk"}
C32_Finishes(w) ==
    /\ wpc'[w] = "loop"
    /\ wreq[w] \in done'
    /\ IF wreq[w].type = REQ_TRAVERSE
       THEN /\ Len(traverseQ') = Len(traverseQ) + 1
            /\ traverseQ'[Len(traverseQ')].lo = wreq[w].lo
            /\ traverseQ'[Len(traverseQ')].status = STATUS_TRAVERSE_END
       ELSE /\ Len(completionQ') = Len(completionQ) + 1
            /\ completionQ'[Len(completionQ')].lo = wreq[w].lo
C32_FinishesInFlight ==
    /\ [][ \A w \in Workers :
              (C32_Busy(w) /\ wpc'[w] \notin {"find", "post", "trav", "walk"})
                 => C32_Finishes(w) ]_vars
    /\ [][ \A w \in Workers :
              (wpc[w] # "term" /\ wpc'[w] = "term") =>
                 wpc[w] \in {"loop", "deq"} /\ wreq[w] = NoReq ]_vars
    /\ \A w \in Workers : \A k \in 1..MaxReq :
          (~running /\ C32_Busy(w) /\ wreq[w].lo = k) ~>
             (\E r \in done : r.lo = k)
C32_Witness ==
    /\ ~running
    /\ ctl = "join"
    /\ \E w \in Workers :
          /\ wpc[w] = "walk"
          /\ wtodo[w] = << >>
          /\ \E i \in 1..Len(traverseQ) :
                /\ traverseQ[i].lo = wreq[w].lo
                /\ traverseQ[i].status = STATUS_TRAVERSE_MORE
    /\ \E w \in Workers : wpc[w] = "term"

\* C33 -- Every Completion the workers have enqueued with the sentinel
\* value_len 0xFFFFFFFF has a LargeValue record of the same correlation id
\* that the workers have enqueued too, holding the whole value, whatever
\* allocation fails inside post_large_value.
C33_Sentinel(c) == c.value_len = << 65535, 65535 >>
C33_Joined(c) ==
    \E k \in 1..Len(AllL) :
        /\ AllL[k].lo = c.lo
        /\ AllL[k].hi = c.hi
        /\ AllL[k].len = U32(Len(AllL[k].data))
\* As claimed.
C33_Claimed ==
    \A c \in { AllC[j] : j \in 1..Len(AllC) }
             \cup { AllT[j] : j \in 1..Len(AllT) } :
        C33_Sentinel(c) => C33_Joined(c)

\* C34 -- Results are routed by kind: a record on the Completion queue
\* answers a Find request and has status Ok, NotFound or Error; a record on
\* the Traverse queue answers a Traverse request and has status TraverseMore
\* or TraverseEnd; a value over the inline capacity is carried by a record
\* of the LargeValue queue alone, the Completion that announces it holds no
\* byte of it.
C34_KindOf(x) == { submitted[i].type : i \in Of(submitted, x) }
C34_RoutedByKind ==
    /\ \A j \in 1..Len(AllC) :
          /\ C34_KindOf(AllC[j]) \subseteq {REQ_FIND_VALUE, REQ_FIND_NODE}
          /\ C34_KindOf(AllC[j]) # {}
          /\ AllC[j].status \in {STATUS_OK, STATUS_NOT_FOUND, STATUS_ERROR}
    /\ \A j \in 1..Len(AllT) :
          /\ C34_KindOf(AllT[j]) = {REQ_TRAVERSE}
          /\ AllT[j].status \in {STATUS_TRAVERSE_MORE, STATUS_TRAVERSE_END}
    /\ \A j \in 1..Len(AllL) :
          /\ C34_KindOf(AllL[j]) # {}
          /\ ~FitsInline(Len(AllL[j].data))
    /\ \A c \in { AllC[j] : j \in 1..Len(AllC) }
                \cup { AllT[j] : j \in 1..Len(AllT) } :
          /\ Len(c.value) <= InlineCap
          /\ c.value_len = << 65535, 65535 >> => c.value = << >>
C34_Witness ==
    /\ \E j \in 1..Len(AllC) : AllC[j].status = STATUS_OK
    /\ \E j \in 1..Len(AllT) : AllT[j].status = STATUS_TRAVERSE_MORE
    /\ \E j \in 1..Len(AllT) : AllT[j].status = STATUS_TRAVERSE_END
    /\ \E j \in 1..Len(AllL) : C34_KindOf(AllL[j]) = {REQ_TRAVERSE}
    /\ \E j \in 1..Len(AllL) : C34_KindOf(AllL[j]) = {REQ_FIND_VALUE}

\* C35 -- In every Completion the bridge enqueues, value_len is at most 256
\* (and then the number of value bytes it carries) or exactly 0xFFFFFFFF;
\* it is 0 for NotFound, Error and TraverseEnd; every LargeValue record has
\* a len over 256 that is the length of its payload.
C35_Inline(c) ==
    /\ c.value_len[1] = 0
    /\ c.value_len[2] <= InlineCap
    /\ c.value_len[2] = Len(c.value)
C35_Lengths ==
    /\ \A c \in { completionQ[j] : j \in 1..Len(completionQ) }
                \cup { traverseQ[j] : j \in 1..Len(traverseQ) } :
          /\ C35_Inline(c) \/ c.value_len = SENTINEL_LEN
          /\ c.status \in {STATUS_NOT_FOUND, STATUS_ERROR, STATUS_TRAVERSE_END}
                => c.value_len = U32(0)
    /\ \A j \in 1..Len(largeQ) :
          /\ largeQ[j].len[1] = 0
          /\ largeQ[j].len[2] > InlineCap
          /\ largeQ[j].len[2] = Len(largeQ[j].data)
          /\ \E r \in done \cup { wreq[w] : w \in Workers } :
                /\ SameId(largeQ[j], r)
                /\ \E n \in DOMAIN Trie : largeQ[j].data = Trie[n].value
C35_Witness ==
    /\ \E j \in 1..Len(completionQ) :
          completionQ[j].status = STATUS_NOT_FOUND
    /\ \E j \in 1..Len(traverseQ) : traverseQ[j].value_len = U32(InlineCap)
    /\ \E j \in 1..Len(traverseQ) : traverseQ[j].value_len = SENTINEL_LEN
    /\ \E j \in 1..Len(traverseQ) : traverseQ[j].status = STATUS_TRAVERSE_END
    /\ largeQ # << >>

\* C36 -- On a traverse machine, down(branch, node) on a node that is not
\* the traversal root appends the branch nibble and the node's path nibbles
\* to the accumulated path, and the up(branch, node) that closes it leaves
\* the path as it was before that down; down on the traversal root leaves
\* the path equal to the request prefix.
C36_DownThenUp ==
    /\ \A i \in 1..Len(tm.open) :
          LET f == tm.open[i]
          IN IF f.branch = INVALID_BRANCH
             THEN i = 1 /\ f.after = pin
             ELSE f.after = f.before \o << f.branch >> \o f.npath
    /\ (tm.ups = 1 /\ tm.last.branch # INVALID_BRANCH) =>
          tm.last.after = tm.last.before
    /\ tm.open # << >> => tm.path_ = tm.open[Len(tm.open)].after
C36_Witness ==
    /\ tm.ups = 1
    /\ tm.last.branch = 15
    /\ tm.last.before = <<1, 2, 7, 6, 6>>
    /\ tm.path_ = <<1, 2, 7, 6, 6>>
    /\ Len(tm.open) = 2

\* C37 -- For a queue between its construction and its destruction: when
\* no dequeue is half done (its garbage returned and not yet freed), the
\* allocated link entries are the pending payloads plus one, the stub; an
\* enqueue allocates one entry, a dequeue that returns a value frees one,
\* and a freed entry is never one the queue still reaches.
C37_Reached == { fq.chain[i] : i \in 1..Len(fq.chain) }
C37_EntryAccounting ==
    /\ [] (fq.garbage = {} =>
              Cardinality(fq.alloc) = Len(fq.vals) + 1)
    /\ [] (Len(fq.chain) = Len(fq.vals) + 1)
    /\ [] (C37_Reached \subseteq fq.alloc)
    /\ [] (fq.freed \cap (C37_Reached \cup fq.alloc) = {})
    /\ [][ Len(fq.vals') = Len(fq.vals) + 1 =>
              Cardinality(fq.alloc') = Cardinality(fq.alloc) + 1 ]_vars
    /\ [][ Len(fq.out') = Len(fq.out) + 1 =>
              /\ Cardinality(fq.garbage') = 1
              /\ fq.garbage' \cap C37_Reached' = {} ]_vars
    /\ [][ fq.freed' # fq.freed =>
              /\ Cardinality(fq.freed') = Cardinality(fq.freed) + 1
              /\ Cardinality(fq.alloc') = Cardinality(fq.alloc) - 1 ]_vars
C37_Witness ==
    /\ Len(fq.out) = 2
    /\ fq.freed = {0, 1}
    /\ fq.garbage = {}
    /\ Len(fq.vals) = 2
    /\ fq.alloc = {2, 3, 4}

\* C38 -- alloc_request_batch(out, count) returns how many requests it
\* allocated: each of out[0 .. returned-1] is a non-null node, also when an
\* allocation has failed, and so the Request queue never holds a null
\* payload after submit_batch(out, returned).
\* As claimed.
C38_Claimed ==
    /\ abatch.state = "allocated" =>
          \A i \in 1..abatch.ret : abatch.out[i]
    /\ \A i \in 1..Len(requestQ) : requestQ[i] # NullNode

\* C39 -- A submitted request whose kind is none of FindValue, FindNode,
\* Traverse, Shutdown is dequeued by one worker and freed once, by the step
\* that dequeues it; no record with its correlation id comes onto any queue;
\* the worker goes back to the top of its loop.
C39_Known == {REQ_FIND_VALUE, REQ_FIND_NODE, REQ_TRAVERSE, REQ_SHUTDOWN}
C39_Unknown(r) == r.type \notin C39_Known /\ r # NullNode /\ r.lo > 0
C39_Times(ids, k) == Cardinality({ i \in 1..Len(ids) : ids[i] = k })
C39_UnknownKindDropped ==
    /\ [] (\A i \in 1..Len(submitted) :
              C39_Unknown(submitted[i]) =>
                 /\ Of(AllC, submitted[i]) = {}
                 /\ Of(AllT, submitted[i]) = {}
                 /\ Of(AllL, submitted[i]) = {}
                 /\ C39_Times(taken, submitted[i].lo) <= 1
                 /\ freed[submitted[i].lo] = C39_Times(taken, submitted[i].lo)
                 /\ \A w \in Workers : wreq[w] # submitted[i])
    /\ [][ \A w \in Workers :
              ( /\ wpc[w] = "deq" /\ wpc'[w] # "deq"
                /\ requestQ # << >>
                /\ C39_Unknown(Head(requestQ)) ) =>
                 /\ wpc'[w] = "loop"
                 /\ requestQ' = Tail(requestQ)
                 /\ Head(requestQ) \in done'
                 /\ UNCHANGED << completionQ, traverseQ, largeQ >> ]_vars
C39_Witness ==
    /\ num_workers = 1
    /\ running
    /\ \E r \in done, r2 \in done :
          /\ C39_Unknown(r)
          /\ freed[r.lo] = 1
          /\ r2.type = REQ_FIND_VALUE
          /\ r2.lo > r.lo

\* C40 -- The packing of a traversal path into the 32 bytes is injective on
\* the paths it does not truncate: no other path of at most 64 nibbles, of
\* the same length or not, packs to the bytes this path packs to.
\* As claimed.
C40_Claimed ==
    (pout # << >> /\ Len(pin) <= 2 * HashLen) =>
        \A other \in PackInputs :
            (Len(other) <= 2 * HashLen /\ other # pin) =>
                PackPath(other) # pout

====
